---------------------------- MODULE Spec2Model ----------------------------
(***************************************************************************)
(* A model of DorkHunter: the scan driver of dork-scanner.js               *)
(* (runMultiEngineDorkScan, processDorkDisplayMode, openBrowserForUrl, the *)
(* SIGINT handler), the checkpoint store of utils.js (loadCheckpoint,      *)
(* saveCheckpoint) and the challenge detector of human-interaction.js      *)
(* (detectCaptchaOrBlock).                                                 *)
(*                                                                         *)
(* Eleven specifications share the variables:                               *)
(*   Spec       the scan driver over several runs of the program, with     *)
(*              crashes, interrupts and failing file operations;           *)
(*   SpecFair   Spec with the fairness of the event loop, for liveness;    *)
(*   SpecSame   Spec with the same selection of categories in every run;   *)
(*   SpecForeign SpecSame started on a checkpoint file of any content;      *)
(*   SpecCkpt   saveCheckpoint followed by loadCheckpoint on drawn inputs; *)
(*   SpecDetect detectCaptchaOrBlock on drawn pages;                       *)
(*   SpecHandoff waitForCaptchaResolution with its operator and its page;  *)
(*   SpecStable waitForPageStability with its page and its clock;          *)
(*   SpecGen    generateDorksList on drawn domains, selections, settings;  *)
(*   SpecObserver the observers and XMLHttpRequest wrappers that several     *)
(*              calls of waitForPageStability install in one page;         *)
(*   SpecPause  the driver's loop over a list long enough for its pauses.  *)
(***************************************************************************)
EXTENDS Integers, Sequences, FiniteSets, TLC

VARIABLES
  \* ---- the disk
  file,        \* dork_checkpoint.json: [exists, content], content a token sequence
  dirsExist,   \* dorks-results/, screenshots/ and reports/ exist
  marker,      \* the interrupted_*.txt file of the current run: "none", "written", "failed"
  \* ---- the process
  proc,        \* "running", "exited" (process.exit), "crashed" (killed, power loss)
  exitCode,    \* exit status once proc = "exited"
  exitBy,      \* who called process.exit: "none", "sigint", "fatal"
  sig,         \* SIGINT handler: "none", "marker" (its writeFile is in flight)
  \* ---- runMultiEngineDorkScan
  pc,          \* position of the driver
  dorks,       \* const dorks
  checkpoint,  \* const checkpoint (as loaded)
  startIndex,  \* let startIndex
  i,           \* loop variable i
  processedDorks, \* let processedDorks
  reportContent,  \* let reportContent
  results,     \* const results: the dorks of the result records, in order
  stats,       \* const stats: [dorksProcessed, manuallyChecked]
  browser,     \* open: the browser of the running openBrowserForUrl is open;
               \* leaked: a browser whose navigation failed still runs, unclosed
  out,         \* files the run wrote: [list, text, stats, error] counters
  rlClosed,    \* rl.close() was called on the driver's interface
  hiClosed,    \* closeInterface() was called: the interface of the
               \* human-interaction module, used by waitForUserConfirmation
  \* ---- history of the run, kept for the properties only
  hist,
  \* ---- SpecCkpt: one save/load round trip
  rt,
  \* ---- SpecDetect: one detection
  det,
  \* ---- SpecHandoff: one call of waitForCaptchaResolution
  ho,
  \* ---- SpecStable: one call of waitForPageStability
  sw,
  \* ---- SpecGen: one call of generateDorksList
  gen,
  \* ---- SpecObserver: the observers that waitForPageStability leaves in a page
  obs,
  \* ---- SpecPause: the loop of the driver over a long list
  loop

scanVars == <<proc, exitCode, exitBy, sig, pc, dorks, checkpoint, startIndex, i,
              processedDorks, reportContent, results, stats, browser, out, rlClosed,
              hiClosed, dirsExist, marker, hist>>
vars == <<file, scanVars, rt, det, ho, sw, gen, obs, loop>>

-----------------------------------------------------------------------------
(* Bounds of the model.                                                    *)

\* number of dork categories the operator can select from (the program has 4)
NumCats == 2
\* SpecCkpt: largest index and longest processed list drawn
MaxIdx == 2
MaxProcessed == 2
\* SpecDetect: largest number of grid image tiles drawn
MaxGrid == 6
\* SpecHandoff: largest timeoutMs drawn, in clock ticks
MaxTimeout == 2
\* SpecStable: largest stableTime and maxWaitTime drawn, in polling intervals
MaxStable == 2
MaxWait == 3
\* SpecStable: longest page.evaluate, in polling intervals
MaxEvalTicks == 2
\* SpecStable: largest length of document.body.innerHTML
MaxSize == 1
\* SpecObserver: calls of waitForPageStability on one page
MaxCalls == 2
\* SpecPause: longest dork list
MaxDorks == 21

-----------------------------------------------------------------------------
(* JavaScript values, as far as the checkpoint needs them: numbers, NaN,   *)
(* strings, null, undefined and arrays of such values.                     *)

JSNum(n) == [t |-> "num", v |-> n]
JSStr(s) == [t |-> "str", v |-> s]
JSArr(s) == [t |-> "arr", v |-> s]
JSNull == [t |-> "null", v |-> 0]
JSUndef == [t |-> "undef", v |-> 0]
JSNaN == [t |-> "nan", v |-> 0]

\* JavaScript truthiness of a value (the operand of ||)
Truthy(x) ==
  CASE x.t = "num" -> x.v # 0
    [] x.t = "str" -> x.v # ""
    [] x.t = "arr" -> TRUE
    [] OTHER -> FALSE

\* x + 1 for a value x: a number, or NaN for undefined
PlusOne(x) ==
  CASE x.t = "num" -> JSNum(x.v + 1)
    [] x.t = "null" -> JSNum(1)
    [] OTHER -> JSNaN

\* a < n for a value a and an integer n: false when a is NaN
LessThan(a, n) == a.t = "num" /\ a.v < n

-----------------------------------------------------------------------------
(* JSON text as a sequence of lexemes. An object is a sequence of          *)
(* <<key, value>> pairs in insertion order.                                *)

Tok(t, v) == [t |-> t, v |-> v]

RECURSIVE ItemTokens(_)
\* the lexemes of the elements of an array; undefined and NaN are written null
ItemTokens(s) ==
  IF s = <<>> THEN <<>>
  ELSE LET x == Head(s) IN
       (IF x.t \in {"num", "str"} THEN <<Tok(x.t, x.v)>> ELSE <<Tok("null", 0)>>)
       \o ItemTokens(Tail(s))

\* the lexemes of one value
ValueTokens(x) ==
  CASE x.t = "arr" -> <<Tok("[", 0)>> \o ItemTokens(x.v) \o <<Tok("]", 0)>>
    [] x.t \in {"num", "str"} -> <<Tok(x.t, x.v)>>
    [] OTHER -> <<Tok("null", 0)>>

RECURSIVE MemberTokens(_)
\* the members of an object; a member whose value is undefined is left out
MemberTokens(ps) ==
  IF ps = <<>> THEN <<>>
  ELSE LET p == Head(ps) IN
       (IF p[2].t = "undef" THEN <<>> ELSE <<Tok("key", p[1])>> \o ValueTokens(p[2]))
       \o MemberTokens(Tail(ps))

\* JSON.stringify of an object
JSONstringify(ps) == <<Tok("{", 0)>> \o MemberTokens(ps) \o <<Tok("}", 0)>>

\* the keys of a checkpoint object
Keys == {"lastIndex", "reportContent", "processedDorks", "timestamp"}

\* an object with no member: every key undefined
EmptyObject == [k \in Keys |-> JSUndef]

RECURSIVE ParseItems(_, _, _)
\* the elements of an array from position p on, up to its "]"
ParseItems(toks, p, acc) ==
  IF p > Len(toks) THEN [ok |-> FALSE, val |-> <<>>, next |-> p]
  ELSE IF toks[p].t = "]" THEN [ok |-> TRUE, val |-> acc, next |-> p + 1]
  ELSE IF toks[p].t \in {"num", "str"}
       THEN ParseItems(toks, p + 1, Append(acc, [t |-> toks[p].t, v |-> toks[p].v]))
  ELSE IF toks[p].t = "null" THEN ParseItems(toks, p + 1, Append(acc, JSNull))
  ELSE [ok |-> FALSE, val |-> <<>>, next |-> p]

\* one value at position p
ParseValue(toks, p) ==
  IF p > Len(toks) THEN [ok |-> FALSE, val |-> JSUndef, next |-> p]
  ELSE IF toks[p].t \in {"num", "str"}
       THEN [ok |-> TRUE, val |-> [t |-> toks[p].t, v |-> toks[p].v], next |-> p + 1]
  ELSE IF toks[p].t = "null" THEN [ok |-> TRUE, val |-> JSNull, next |-> p + 1]
  ELSE IF toks[p].t = "["
       THEN LET r == ParseItems(toks, p + 1, <<>>)
            IN  [ok |-> r.ok, val |-> JSArr(r.val), next |-> r.next]
  ELSE [ok |-> FALSE, val |-> JSUndef, next |-> p]

RECURSIVE ParseMembers(_, _, _)
\* the members of an object from position p on; the closing brace must end the text
ParseMembers(toks, p, obj) ==
  IF p > Len(toks) THEN [ok |-> FALSE, val |-> obj]
  ELSE IF toks[p].t = "}" THEN [ok |-> p = Len(toks), val |-> obj]
  ELSE IF toks[p].t = "key" /\ toks[p].v \in Keys
       THEN LET r == ParseValue(toks, p + 1)
            IN  IF r.ok
                THEN ParseMembers(toks, r.next, [obj EXCEPT ![toks[p].v] = r.val])
                ELSE [ok |-> FALSE, val |-> obj]
  ELSE [ok |-> FALSE, val |-> obj]

\* JSON.parse of a text holding an object: ok is FALSE where JSON.parse throws
JSONparse(toks) ==
  IF Len(toks) = 0 \/ toks[1].t # "{"
  THEN [ok |-> FALSE, val |-> EmptyObject]
  ELSE ParseMembers(toks, 2, EmptyObject)

-----------------------------------------------------------------------------
(* The checkpoint store (utils.js).                                        *)

\* equality of two scalar values
JSEq(a, b) == a.t = b.t /\ (a.t \in {"num", "str"} => a.v = b.v)

\* a list of dork texts as an array of strings
StrArr(P) == JSArr([k \in 1..Len(P) |-> JSStr(P[k])])

\* the elements of a sequence
Range(s) == {s[k] : k \in 1..Len(s)}

\* the state of a file that does not exist
Absent == [exists |-> FALSE, content |-> <<>>]

\* the value loadCheckpoint returns when it has no checkpoint to give
Sentinel ==
  [lastIndex |-> JSNum(-1), reportContent |-> JSNull,
   processedDorks |-> JSArr(<<>>), timestamp |-> JSUndef]

\* loadCheckpoint without its try/catch: a failing read or parse is raised
loadCheckpoint_NoCatch(f, readOk) ==
  IF ~f.exists THEN [raised |-> FALSE, value |-> Sentinel]
  ELSE IF ~readOk THEN [raised |-> TRUE, value |-> Sentinel]
  ELSE LET r == JSONparse(f.content)
       IN  [raised |-> ~r.ok, value |-> IF r.ok THEN r.val ELSE Sentinel]

\* loadCheckpoint(checkpointFile): readOk is whether fs.readFile succeeds.
\* Every exception of the body is caught and the sentinel returned.
loadCheckpoint(f, readOk) ==
  IF ~f.exists THEN [raised |-> FALSE, value |-> Sentinel]
  ELSE IF ~readOk THEN [raised |-> FALSE, value |-> Sentinel]
  ELSE LET r == JSONparse(f.content)
       IN  [raised |-> FALSE, value |-> IF r.ok THEN r.val ELSE Sentinel]

\* a checkpoint text that leaves the processed list at its default []
CheckpointText_DropsProcessed(index, rc, P, ts) ==
  JSONstringify(<< <<"lastIndex", JSNum(index)>>, <<"reportContent", rc>>,
                   <<"processedDorks", StrArr(<<>>)>>, <<"timestamp", JSStr(ts)>> >>)

\* the text saveCheckpoint hands to fs.writeFile
CheckpointText(index, rc, P, ts) ==
  JSONstringify(<< <<"lastIndex", JSNum(index)>>, <<"reportContent", rc>>,
                   <<"processedDorks", StrArr(P)>>, <<"timestamp", JSStr(ts)>> >>)

\* new Date().toISOString(): the time of day is not modelled
Now == "now"

\* fs.writeFile, first step: the file is opened with O_TRUNC and is empty
WriteFileOpen(f) == [exists |-> TRUE, content |-> <<>>]

\* fs.writeFile, second step: the whole text has been written
WriteFileData(f, text) == [exists |-> TRUE, content |-> text]

\* fs.writeFile failing in its second step: only the first n lexemes are on disk
WriteFilePartial(f, text, n) == [exists |-> TRUE, content |-> SubSeq(text, 1, n)]

-----------------------------------------------------------------------------
(* SpecCkpt: saveCheckpoint(path, idx, c, P) and then loadCheckpoint(path) *)
(* for drawn idx, c and P.                                                 *)

\* the dork texts of the model: one template per category, 0 for the
\* probe of the alternate domain
DorkIds == 0..NumCats

\* the sequences over S of length at most n
SeqsUpTo(S, n) == UNION {[1..m -> S] : m \in 0..n}

\* positions of the round trip
RtIdle == [phase |-> "off", idx |-> 0, c |-> JSNull, P |-> <<>>,
           saveOk |-> FALSE, readOk |-> FALSE, loaded |-> Sentinel]

\* no browser launched by the process is running
NoBrowser == [open |-> FALSE, leaked |-> FALSE]

\* the state that is not part of a specification stays at these values
ScanIdle ==
  /\ proc = "off" /\ exitCode = 0 /\ exitBy = "none" /\ sig = "none"
  /\ pc = "off" /\ dorks = <<>> /\ checkpoint = Sentinel /\ startIndex = JSNum(0)
  /\ i = JSNum(0) /\ processedDorks = <<>> /\ reportContent = "" /\ results = <<>>
  /\ stats = [dorksProcessed |-> 0, manuallyChecked |-> 0]
  /\ browser = NoBrowser /\ out = [list |-> 0, text |-> 0, stats |-> 0, error |-> 0]
  /\ rlClosed = FALSE /\ hiClosed = FALSE /\ dirsExist = FALSE /\ marker = "none"
  /\ hist = <<>>

DetIdle == [phase |-> "off"]
HoIdle == [phase |-> "off"]
SwIdle == [phase |-> "off"]
GenIdle == [phase |-> "off"]
ObsIdle == [phase |-> "off"]
LpIdle == [phase |-> "off"]

InitCkpt ==
  /\ file = Absent
  /\ rt \in [phase : {"start"}, idx : 0..MaxIdx,
             c : {JSNull, JSStr(""), JSStr("report")},
             P : SeqsUpTo(DorkIds, MaxProcessed),
             saveOk : {FALSE}, readOk : {FALSE}, loaded : {Sentinel}]
  /\ ScanIdle
  /\ det = DetIdle /\ ho = HoIdle /\ sw = SwIdle /\ gen = GenIdle /\ obs = ObsIdle /\ loop = LpIdle

\* saveCheckpoint: fs.writeFile opens the file, or fails to (caught, logged)
RtSaveOpen ==
  /\ rt.phase = "start"
  /\ \E ok \in BOOLEAN :
       IF ok
       THEN file' = WriteFileOpen(file) /\ rt' = [rt EXCEPT !.phase = "opened"]
       ELSE file' = file /\ rt' = [rt EXCEPT !.phase = "saved", !.saveOk = FALSE]
  /\ UNCHANGED <<scanVars, det, ho, sw, gen, obs, loop>>

\* saveCheckpoint: fs.writeFile writes the text, or fails part-way (caught, logged)
RtSaveWrite ==
  /\ rt.phase = "opened"
  /\ LET text == CheckpointText(rt.idx, rt.c, rt.P, Now) IN
     \E n \in 0..Len(text) :
       /\ file' = IF n = Len(text) THEN WriteFileData(file, text)
                  ELSE WriteFilePartial(file, text, n)
       /\ rt' = [rt EXCEPT !.phase = "saved", !.saveOk = (n = Len(text))]
  /\ UNCHANGED <<scanVars, det, ho, sw, gen, obs, loop>>

\* loadCheckpoint on the same path
RtLoad ==
  /\ rt.phase = "saved"
  /\ \E readOk \in BOOLEAN :
       LET r == loadCheckpoint(file, readOk) IN
       rt' = [rt EXCEPT !.phase = IF r.raised THEN "raised" ELSE "loaded",
                        !.readOk = readOk, !.loaded = r.value]
  /\ UNCHANGED <<file, scanVars, det, ho, sw, gen, obs, loop>>

NextCkpt == RtSaveOpen \/ RtSaveWrite \/ RtLoad

SpecCkpt == InitCkpt /\ [][NextCkpt]_vars

\* C6: checkpoint round trip. loadCheckpoint reading the file that a successful
\* saveCheckpoint(path, idx, c, P) wrote returns lastIndex = idx, a processedDorks
\* with the same elements as P, and reportContent = c.
C6_RoundTrip ==
  (rt.phase = "loaded" /\ rt.saveOk /\ rt.readOk) =>
     /\ JSEq(rt.loaded.lastIndex, JSNum(rt.idx))
     /\ rt.loaded.processedDorks.t = "arr"
     /\ {x.v : x \in Range(rt.loaded.processedDorks.v)} = Range(rt.P)
     /\ \A x \in Range(rt.loaded.processedDorks.v) : x.t = "str"
     /\ JSEq(rt.loaded.reportContent, rt.c)

\* a round trip of a list of two different dorks, given out of list order, has been made
C6_Witness ==
  /\ rt.phase = "loaded" /\ rt.saveOk /\ rt.readOk
  /\ Len(rt.P) = 2 /\ rt.P[1] > rt.P[2] /\ rt.idx > 0 /\ rt.c.t = "str"
  /\ Len(rt.loaded.processedDorks.v) = 2

-----------------------------------------------------------------------------
(* The challenge detector, detectCaptchaOrBlock. A page is described by    *)
(* what the detector can see of it: present (the argument is not null),    *)
(* closed, evalThrows (page.evaluate rejects: the in-page function throws  *)
(* or the execution context is lost), body (document.body exists),         *)
(* keyword (the body text contains one of the block keywords), selector    *)
(* (one of the captcha selectors matches), grid (number of grid image      *)
(* tiles).                                                                 *)

\* more than this many grid image tiles count as a challenge
GridThreshold == 4

\* the string s contains the string d
Contains(s, d) ==
  \E k \in 1..(Len(s) - Len(d) + 1) : SubSeq(s, k, k + Len(d) - 1) = d

\* the pages drawn
Pages ==
  [present : BOOLEAN, closed : {FALSE}, evalThrows : BOOLEAN, body : BOOLEAN,
   keyword : BOOLEAN, selector : BOOLEAN, grid : 0..MaxGrid]

\* the function evaluated in the page: its detected field
EvaluateInPage(pg) ==
  IF ~pg.body THEN FALSE
  ELSE IF pg.keyword THEN TRUE
  ELSE IF pg.selector THEN TRUE
  ELSE pg.grid > GridThreshold

RECURSIVE toLowerCase(_)
\* line 136: document.body.innerText.toLowerCase()
toLowerCase(t) ==
  LET c == SubSeq(t, 1, 1)
      lower ==
        CASE c = "A" -> "a" [] c = "B" -> "b" [] c = "C" -> "c" [] c = "D" -> "d"
          [] c = "E" -> "e" [] c = "F" -> "f" [] c = "G" -> "g" [] c = "H" -> "h"
          [] c = "I" -> "i" [] c = "J" -> "j" [] c = "K" -> "k" [] c = "L" -> "l"
          [] c = "M" -> "m" [] c = "N" -> "n" [] c = "O" -> "o" [] c = "P" -> "p"
          [] c = "Q" -> "q" [] c = "R" -> "r" [] c = "S" -> "s" [] c = "T" -> "t"
          [] c = "U" -> "u" [] c = "V" -> "v" [] c = "W" -> "w" [] c = "X" -> "x"
          [] c = "Y" -> "y" [] c = "Z" -> "z" [] OTHER -> c
  IN  IF t = "" THEN "" ELSE lower \o toLowerCase(SubSeq(t, 2, Len(t)))

\* lines 143-164: the keywords, in the order of the array
blockKeywords ==
  <<"captcha", "robot", "automated", "bot check", "suspicious activity",
    "unusual traffic", "security check", "human verification",
    "verify you are human", "are you a robot", "challenge", "blocked",
    "access denied", "denied access", "too many requests", "rate limit exceeded",
    "please wait", "suspicious", "behavior detected", "verifica">>

\* lines 167-171: the position of the first keyword of the array that the
\* lower-cased text contains, 0 when it contains none
FirstKeyword(text) ==
  LET lt == toLowerCase(text)
      hits == {k \in 1..Len(blockKeywords) : Contains(lt, blockKeywords[k])}
  IN  IF hits = {} THEN 0 ELSE CHOOSE k \in hits : \A j \in hits : k <= j

\* the visible texts drawn for a page with a body
Texts ==
  {"", "Welcome", "Please solve the CAPTCHA", "Access Denied: suspicious activity",
   "Unblock your potential"}

\* a detector that flags a grid of GridThreshold tiles already
Reason_AtLeast(pg, text) ==
  IF ~pg.body THEN <<"nobody">>
  ELSE IF FirstKeyword(text) # 0 THEN <<"keyword", blockKeywords[FirstKeyword(text)]>>
  ELSE IF pg.selector THEN <<"selector">>
  ELSE IF pg.grid >= GridThreshold THEN <<"grid">>
  ELSE <<"none">>

\* lines 135-203: the reason field of the object the evaluated function returns
\* for a page with the visible text: the first check that hits, in the order
\* keyword, selector, grid
Reason(pg, text) ==
  IF ~pg.body THEN <<"nobody">>
  ELSE IF FirstKeyword(text) # 0 THEN <<"keyword", blockKeywords[FirstKeyword(text)]>>
  ELSE IF pg.selector THEN <<"selector">>
  ELSE IF pg.grid > GridThreshold THEN <<"grid">>
  ELSE <<"none">>

\* lines 206-209: the reason logged, when the evaluation returned detected
Logged(pg, text) ==
  IF pg.present /\ ~pg.closed /\ ~pg.evalThrows
        /\ Reason(pg, text)[1] \in {"keyword", "selector", "grid"}
  THEN Reason(pg, text) ELSE <<"none">>

\* a detector without the test of the page handle: page.evaluate is called on
\* whatever it is given, which throws into the catch block for a missing or
\* closed page
Evaluates_NoGuard(pg) == TRUE

\* lines 129-135: page.evaluate is called when the page is there and open
Evaluates(pg) == pg.present /\ ~pg.closed

\* a detector whose catch block answers that nothing was detected
detectCaptchaOrBlock_FailOpen(pg) ==
  IF ~pg.present \/ pg.closed THEN "throw"
  ELSE IF pg.evalThrows THEN "false"
  ELSE IF EvaluateInPage(pg) THEN "true" ELSE "false"

\* detectCaptchaOrBlock(page): "throw" when the page is missing or closed, else
\* "true" when the evaluation throws or detects, else "false"
detectCaptchaOrBlock(pg) ==
  IF ~pg.present \/ pg.closed THEN "throw"
  ELSE IF pg.evalThrows THEN "true"
  ELSE IF EvaluateInPage(pg) THEN "true" ELSE "false"

InitDetect ==
  /\ file = Absent /\ ScanIdle /\ rt = RtIdle /\ ho = HoIdle /\ sw = SwIdle
  /\ gen = GenIdle /\ obs = ObsIdle /\ loop = LpIdle
  /\ \E pg \in Pages, tx \in Texts :
       /\ pg.keyword = (pg.body /\ FirstKeyword(tx) # 0)
       /\ ~pg.body => tx = ""
       /\ det = [phase |-> "page", page |-> pg, text |-> tx, result |-> "none",
                 evaluated |-> FALSE, reason |-> <<"none">>]

\* the page is closed before the detector is called
PageCloses ==
  /\ det.phase = "page" /\ det.page.present /\ ~det.page.closed
  /\ det' = [det EXCEPT !.page.closed = TRUE]
  /\ UNCHANGED <<file, scanVars, rt, ho, sw, gen, obs, loop>>

\* the detector is called on the page and settles
Detect ==
  /\ det.phase = "page"
  /\ det' = [det EXCEPT !.phase = "done", !.result = detectCaptchaOrBlock(det.page),
                         !.evaluated = Evaluates(det.page),
                         !.reason = Logged(det.page, det.text)]
  /\ UNCHANGED <<file, scanVars, rt, ho, sw, gen, obs, loop>>

NextDetect == PageCloses \/ Detect

SpecDetect == InitDetect /\ [][NextDetect]_vars

\* C10: when the in-page evaluation throws on a page that is open, the detector
\* returns true: it neither returns false nor lets the error out.
C10_FailSafe ==
  (det.phase = "done" /\ det.page.present /\ ~det.page.closed /\ det.page.evalThrows)
     => det.result = "true"

\* C11: called with a missing or a closed page the detector throws; it returns
\* no result and does not evaluate anything in the page.
C11_PageUnavailable ==
  (det.phase = "done" /\ (~det.page.present \/ det.page.closed)) =>
     (det.result = "throw" /\ ~det.evaluated)

\* the detector has thrown for a page that was closed before the call and whose
\* content shows a challenge
C11_Witness ==
  /\ det.phase = "done" /\ det.page.present /\ det.page.closed
  /\ det.page.body /\ det.page.keyword
  /\ det.result = "throw" /\ ~det.evaluated

\* the detector has answered true for an open page whose evaluation threw and
\* whose content shows no sign of a challenge
C10_Witness ==
  /\ det.phase = "done" /\ det.page.present /\ ~det.page.closed /\ det.page.evalThrows
  /\ det.page.body /\ ~det.page.keyword /\ ~det.page.selector /\ det.page.grid = 0
  /\ det.result = "true"

-----------------------------------------------------------------------------
(* The human handoff, waitForCaptchaResolution. Its page is a page of the  *)
(* detector (the challenge shows as keyword); its operator answers the     *)
(* prompts of the module's readline interface rl, whose history[0] the     *)
(* function reads to find the skip token. rl records a line in its history *)
(* only when it is a terminal interface and the line is not empty, and the *)
(* history outlives the call. The clock counts ticks; ho.state names the   *)
(* state of the handoff: Idle, Checking, AwaitingHuman, Resolved, Skipped, *)
(* TimedOut, and Unavailable for the returns on a missing or closed page.  *)

\* the pages drawn
HandoffPages ==
  {pg \in Pages : pg.body /\ ~pg.selector /\ pg.grid = 0}

\* the lines the operator can enter at the prompt
Lines == {"", "skip", "SKIP", "ok"}

\* rl.history[0] after the line was entered ("none": the history is empty)
HistoryAfter(terminal, history, line) ==
  IF terminal /\ line # "" THEN line ELSE history

\* String.prototype.toLowerCase on the strings of the model
ToLower(a) == IF a = "S" THEN "s" ELSE IF a = "SKIP" THEN "skip" ELSE a

\* line 82: lastAnswer && lastAnswer.toLowerCase() === 'skip'
IsSkip(history) == history # "none" /\ ToLower(history) = "skip"

\* a handoff that hands over to the operator whatever the detector says
NeedsHuman_Always(r) == TRUE

\* lines 47-54: needsHumanInteraction for the outcome r of the first detection;
\* a throw of the detector counts as detected
NeedsHuman(r) == r # "false"

\* a handoff that takes every re-check for a resolution
Resolves_Always(r) == TRUE

\* lines 94-108: resolved for the outcome r of a re-check; a throw of the
\* detector counts as resolved
Resolves(r) == r # "true"

\* lines 222-288: the outcome of flashBrowserWindow on a page that is closed or
\* not, whose style and banner injection throws or not, and whose window
\* refuses to be maximised or not; only the closed page makes it throw
flashBrowserWindow(closed, injectThrows, maximiseThrows) ==
  IF closed THEN "throw"
  ELSE IF injectThrows THEN "failed"
  ELSE IF maximiseThrows THEN "unmaximised"
  ELSE "marked"

\* a handoff that lets the error of flashBrowserWindow through
MarkStep_Fatal(o) == o

\* lines 64-68: the marking step of the handoff; a throw of flashBrowserWindow
\* is caught and logged
MarkStep(o) == IF o = "throw" THEN "caught" ELSE o

\* lines 76 and 111-116 at clock t: the loop prompts again, or the function returns
HoLoop(h, t, resolved) ==
  IF t - h.startTime < h.timeout /\ ~resolved
  THEN [h EXCEPT !.phase = "prompt", !.prompted = TRUE]
  ELSE [h EXCEPT !.phase = "done",
                 !.result = IF resolved THEN "true" ELSE "false",
                 !.state = IF resolved THEN "Resolved" ELSE "TimedOut"]

InitHandoff ==
  /\ file = Absent /\ ScanIdle /\ rt = RtIdle /\ det = DetIdle /\ sw = SwIdle
  /\ gen = GenIdle /\ obs = ObsIdle /\ loop = LpIdle
  /\ \E pg \in HandoffPages, to \in 1..MaxTimeout, term \in BOOLEAN,
        hi \in {"none", "skip", "ok"} :
       /\ term \/ hi = "none"
       /\ ho = [phase |-> "call", state |-> "Idle", page |-> pg, timeout |-> to,
                terminal |-> term, history |-> hi, now |-> 0, startTime |-> 0,
                result |-> "none", prompted |-> FALSE, flashed |-> FALSE,
                mark |-> "none",
                first |-> "none", firstThrew |-> FALSE, lastLine |-> "none", lastRecheck |-> "none",
                recheckThrew |-> FALSE, answeredAt |-> 0]

\* lines 38-44: the call; a missing or closed page is answered with false
HoCall ==
  /\ ho.phase = "call"
  /\ ho' = IF ~ho.page.present \/ ho.page.closed
           THEN [ho EXCEPT !.phase = "done", !.result = "false", !.state = "Unavailable"]
           ELSE [ho EXCEPT !.phase = "check", !.state = "Checking"]
  /\ UNCHANGED <<file, scanVars, rt, det, sw, gen, obs, loop>>

\* lines 46-76: the first detection settles; without a block the function
\* returns true, with one the page is marked and the loop is entered. The
\* page may close between the detection and the marking, the injection
\* throws when evaluations in the page throw and may throw for itself, and
\* the window may refuse to be maximised.
HoCheck ==
  /\ ho.phase = "check"
  /\ \E closes \in BOOLEAN, injectThrows \in BOOLEAN, maximiseThrows \in BOOLEAN :
       LET r == detectCaptchaOrBlock(ho.page)
           m == MarkStep(flashBrowserWindow(closes,
                                            ho.page.evalThrows \/ injectThrows,
                                            maximiseThrows))
           h == [ho EXCEPT !.first = r, !.firstThrew = ho.page.evalThrows]
       IN  ho' = IF ~NeedsHuman(r)
                 THEN [h EXCEPT !.phase = "done", !.result = "true",
                                !.state = "Resolved"]
                 ELSE IF m = "throw"
                 THEN [h EXCEPT !.flashed = TRUE, !.mark = m, !.page.closed = closes,
                                !.phase = "done", !.result = "throw"]
                 ELSE HoLoop([h EXCEPT !.flashed = TRUE, !.mark = m,
                                       !.page.closed = closes,
                                       !.startTime = ho.now,
                                       !.state = "AwaitingHuman"], ho.now, FALSE)
  /\ UNCHANGED <<file, scanVars, rt, det, sw, gen, obs, loop>>

\* lines 78-109: the operator enters a line; the skip token in rl.history[0]
\* ends the handoff, a closed page ends it, else the detector is run again
HoAnswer ==
  /\ ho.phase = "prompt"
  /\ \E line \in Lines :
       LET hi == HistoryAfter(ho.terminal, ho.history, line)
           h == [ho EXCEPT !.history = hi, !.lastLine = line, !.answeredAt = ho.now,
                           !.lastRecheck = "none", !.recheckThrew = FALSE]
           r == detectCaptchaOrBlock(ho.page)
       IN  ho' = IF IsSkip(hi)
                 THEN [h EXCEPT !.phase = "done", !.result = "false", !.state = "Skipped"]
                 ELSE IF ho.page.closed
                 THEN [h EXCEPT !.phase = "done", !.result = "false",
                                !.state = "Unavailable"]
                 ELSE HoLoop([h EXCEPT !.lastRecheck = r,
                                       !.recheckThrew = ho.page.evalThrows],
                             ho.now, Resolves(r))
  /\ UNCHANGED <<file, scanVars, rt, det, sw, gen, obs, loop>>

\* time passes while the prompt waits
HoTick ==
  /\ ho.phase = "prompt" /\ ho.now < MaxTimeout + 1
  /\ ho' = [ho EXCEPT !.now = @ + 1]
  /\ UNCHANGED <<file, scanVars, rt, det, sw, gen, obs, loop>>

\* the operator solves the challenge in the browser
HoSolve ==
  /\ ho.phase = "prompt" /\ ~ho.page.closed /\ ho.page.keyword
  /\ ho' = [ho EXCEPT !.page.keyword = FALSE]
  /\ UNCHANGED <<file, scanVars, rt, det, sw, gen, obs, loop>>

\* the page is closed
HoPageCloses ==
  /\ ho.phase \in {"call", "prompt"} /\ ho.page.present /\ ~ho.page.closed
  /\ ho' = [ho EXCEPT !.page.closed = TRUE]
  /\ UNCHANGED <<file, scanVars, rt, det, sw, gen, obs, loop>>

\* the page navigates: evaluations in it start or stop to throw
HoNavigates ==
  /\ ho.phase = "prompt" /\ ~ho.page.closed
  /\ ho' = [ho EXCEPT !.page.evalThrows = ~@]
  /\ UNCHANGED <<file, scanVars, rt, det, sw, gen, obs, loop>>

NextHandoff ==
  HoCall \/ HoCheck \/ HoAnswer \/ HoTick \/ HoSolve \/ HoPageCloses \/ HoNavigates

SpecHandoff == InitHandoff /\ [][NextHandoff]_vars

-----------------------------------------------------------------------------
(* The stability waiter, waitForPageStability. The clock counts polling    *)
(* intervals of 500 ms. The page has the length of its body (size) and the *)
(* timestamp window.__lastChange that the installed observer writes        *)
(* (observed) for as long as it is connected (until). An evaluation in the *)
(* page takes 0..MaxEvalTicks intervals. sw.how tells which return was     *)
(* taken, sw.retAt when, sw.sameSize whether the last poll found the size  *)
(* of the snapshot before it, page.recorded whether the observer has       *)
(* timestamped an event since its installation.                            *)

\* line 453: the sleep between two polls
PollTicks == 1

\* line 408: the observer disconnects stableTimeMs + 1000 after its installation
CleanupTicks == 2

\* lines 421-425 at clock t: the loop polls again, throws on a closed page, or
\* the function returns true at the end of maxWaitTime (lines 456-457)
SwHead(s, t) ==
  IF t - s.startTime < s.maxWait
  THEN IF s.page.closed
       THEN [s EXCEPT !.now = t, !.phase = "done", !.result = "throw", !.how = "closed",
                      !.retAt = t]
       ELSE [s EXCEPT !.now = t, !.phase = "poll"]
  ELSE [s EXCEPT !.now = t, !.phase = "done", !.result = "true", !.how = "maxwait",
                 !.retAt = t]

\* lines 437-440: lastChangeTime after a poll at clock t that read size;
\* stats.lastChange is not looked at
LastChange(s, t, size) ==
  IF size # s.domSize THEN t ELSE s.lastChangeTime

InitStable ==
  /\ file = Absent /\ ScanIdle /\ rt = RtIdle /\ det = DetIdle /\ ho = HoIdle
  /\ gen = GenIdle /\ obs = ObsIdle /\ loop = LpIdle
  /\ \E pr \in BOOLEAN, et \in BOOLEAN, sz \in 0..MaxSize,
        st \in 1..MaxStable, mw \in 1..MaxWait :
       sw = [phase |-> "call",
             page |-> [present |-> pr, closed |-> FALSE, evalThrows |-> et,
                       size |-> sz, observed |-> 0, observing |-> FALSE, until |-> 0,
                       recorded |-> FALSE],
             stable |-> st, maxWait |-> mw, now |-> 0, startTime |-> 0,
             lastChangeTime |-> 0, domSize |-> 0, result |-> "none", how |-> "none",
             retAt |-> 0, sameSize |-> FALSE]

\* lines 370-379: the call; a missing or closed page throws
SwCall ==
  /\ sw.phase = "call"
  /\ sw' = IF ~sw.page.present \/ sw.page.closed
           THEN [sw EXCEPT !.phase = "done", !.result = "throw", !.how = "closed"]
           ELSE [sw EXCEPT !.phase = "install", !.startTime = sw.now,
                           !.lastChangeTime = sw.now, !.domSize = 0]
  /\ UNCHANGED <<file, scanVars, rt, det, ho, gen, obs, loop>>

\* lines 381-421: the observer is installed by an evaluation in the page that
\* takes d intervals; an error of it returns false
SwInstall ==
  /\ sw.phase = "install"
  /\ \E d \in 0..MaxEvalTicks :
       LET t == sw.now + d IN
       sw' = IF sw.page.evalThrows \/ sw.page.closed
             THEN [sw EXCEPT !.now = t, !.phase = "done", !.result = "false",
                             !.how = "error", !.retAt = t]
             ELSE SwHead([sw EXCEPT !.page.observed = t, !.page.observing = TRUE,
                                    !.page.until = t + sw.stable + CleanupTicks], t)
  /\ UNCHANGED <<file, scanVars, rt, det, ho, gen, obs, loop>>

\* lines 427-450: one poll, an evaluation that takes d intervals; it returns
\* false on an error, true when stableTime has passed since lastChangeTime
SwPoll ==
  /\ sw.phase = "poll"
  /\ \E d \in 0..MaxEvalTicks :
       LET t == sw.now + d
           size == sw.page.size
           lct == LastChange(sw, t, size)
           s == [sw EXCEPT !.now = t, !.lastChangeTime = lct, !.domSize = size,
                           !.sameSize = (size = sw.domSize)]
       IN  sw' = IF sw.page.evalThrows \/ sw.page.closed
                 THEN [sw EXCEPT !.now = t, !.phase = "done", !.result = "false",
                                 !.how = "error", !.retAt = t]
                 ELSE IF t - lct >= sw.stable
                 THEN [s EXCEPT !.phase = "done", !.result = "true", !.how = "stable",
                                !.retAt = t]
                 ELSE [s EXCEPT !.phase = "sleep"]
  /\ UNCHANGED <<file, scanVars, rt, det, ho, gen, obs, loop>>

\* lines 453 and 421: the sleep of one polling interval, then the loop test
SwSleep ==
  /\ sw.phase = "sleep"
  /\ sw' = SwHead(sw, sw.now + PollTicks)
  /\ UNCHANGED <<file, scanVars, rt, det, ho, gen, obs, loop>>

\* lines 386-410: the page after an event in it at clock t; the connected
\* observer timestamps it
Observed(pg, t) ==
  IF pg.observing /\ t < pg.until
  THEN [pg EXCEPT !.observed = t, !.recorded = TRUE]
  ELSE pg

\* the page's DOM changes and the length of its body with it
SwGrows ==
  /\ sw.phase \in {"poll", "sleep"} /\ ~sw.page.closed
  /\ \E sz \in (0..MaxSize) \ {sw.page.size} :
       sw' = [sw EXCEPT !.page = [Observed(sw.page, sw.now) EXCEPT !.size = sz]]
  /\ UNCHANGED <<file, scanVars, rt, det, ho, gen, obs, loop>>

\* the page's DOM changes without a change of the length (an attribute, a
\* replaced node), or the page opens an XMLHttpRequest
SwMutates ==
  /\ sw.phase \in {"poll", "sleep"} /\ ~sw.page.closed
  /\ sw.page # Observed(sw.page, sw.now)
  /\ sw' = [sw EXCEPT !.page = Observed(sw.page, sw.now)]
  /\ UNCHANGED <<file, scanVars, rt, det, ho, gen, obs, loop>>

\* the page is closed
SwPageCloses ==
  /\ sw.phase \in {"call", "poll", "sleep"} /\ sw.page.present /\ ~sw.page.closed
  /\ sw' = [sw EXCEPT !.page.closed = TRUE]
  /\ UNCHANGED <<file, scanVars, rt, det, ho, gen, obs, loop>>

\* the page navigates: evaluations in it throw from now on
SwNavigates ==
  /\ sw.phase \in {"poll", "sleep"} /\ ~sw.page.closed /\ ~sw.page.evalThrows
  /\ sw' = [sw EXCEPT !.page.evalThrows = TRUE]
  /\ UNCHANGED <<file, scanVars, rt, det, ho, gen, obs, loop>>

NextStable ==
  SwCall \/ SwInstall \/ SwPoll \/ SwSleep \/ SwGrows \/ SwMutates
    \/ SwPageCloses \/ SwNavigates

SpecStable == InitStable /\ [][NextStable]_vars

-----------------------------------------------------------------------------
(* The observers of waitForPageStability in one page, SpecObserver. Every  *)
(* call evaluates lines 383-414 in the page: it connects a MutationObserver *)
(* of its own, remembers the current XMLHttpRequest.prototype.open, puts a  *)
(* wrapper in its place and sets a timer that disconnects the observer and  *)
(* puts the remembered function back. The function open is 0 for the        *)
(* page's original and k for the wrapper of the k-th call. The clock counts *)
(* polling intervals.                                                       *)

InitObserver ==
  /\ file = Absent /\ ScanIdle /\ rt = RtIdle /\ det = DetIdle /\ ho = HoIdle
  /\ sw = SwIdle /\ gen = GenIdle /\ loop = LpIdle
  /\ \E b \in BOOLEAN :
       obs = [phase |-> "page", body |-> b, now |-> 0, open |-> 0, n |-> 0,
              calls |-> [k \in 1..MaxCalls |->
                          [state |-> "idle", saved |-> 0, due |-> 0,
                           connected |-> FALSE]], overlapped |-> FALSE]

\* the calls whose cleanup timer is pending
Pending(o) == {k \in 1..MaxCalls : o.calls[k].state = "installed"}

\* lines 383-414: the next call evaluates its installation, with stableTime st
ObsInstall ==
  /\ obs.phase = "page" /\ obs.n < MaxCalls
  /\ \E st \in 1..MaxStable :
       LET k == obs.n + 1 IN
       /\ obs.now + st + CleanupTicks <= MaxCalls * (MaxStable + CleanupTicks)
       /\ obs' = [obs EXCEPT !.n = k, !.open = k,
                             !.overlapped = @ \/ Pending(obs) # {},
                             !.calls[k] = [state |-> "installed", saved |-> obs.open,
                                           due |-> obs.now + st + CleanupTicks,
                                           connected |-> obs.body]]
  /\ UNCHANGED <<file, scanVars, rt, det, ho, sw, gen, loop>>

\* lines 405-408: the timer of call k fires; timers fire in the order of their
\* due times, and in the order they were set when these are equal
ObsCleanup ==
  /\ obs.phase = "page"
  /\ \E k \in Pending(obs) :
       /\ obs.calls[k].due <= obs.now
       /\ \A j \in Pending(obs) :
            j # k => (obs.calls[k].due < obs.calls[j].due
                        \/ (obs.calls[k].due = obs.calls[j].due /\ k < j))
       /\ obs' = [obs EXCEPT !.open = obs.calls[k].saved,
                             !.calls[k].state = "cleaned",
                             !.calls[k].connected = FALSE]
  /\ UNCHANGED <<file, scanVars, rt, det, ho, sw, gen, loop>>

\* time passes; a timer that is due fires first
ObsTick ==
  /\ obs.phase = "page" /\ obs.now < MaxCalls * (MaxStable + CleanupTicks)
  /\ \A k \in Pending(obs) : obs.calls[k].due > obs.now
  /\ obs' = [obs EXCEPT !.now = @ + 1]
  /\ UNCHANGED <<file, scanVars, rt, det, ho, sw, gen, loop>>

\* the page loads a new document: its window, with the observers, the timers
\* and the wrappers, is discarded
ObsNavigates ==
  /\ obs.phase = "page" /\ Pending(obs) # {}
  /\ obs' = [obs EXCEPT !.open = 0, !.overlapped = FALSE,
                        !.calls = [k \in 1..MaxCalls |->
                                     IF obs.calls[k].state = "installed"
                                     THEN [obs.calls[k] EXCEPT !.state = "gone",
                                                               !.connected = FALSE]
                                     ELSE obs.calls[k]]]
  /\ UNCHANGED <<file, scanVars, rt, det, ho, sw, gen, loop>>

NextObserver == ObsInstall \/ ObsCleanup \/ ObsTick \/ ObsNavigates

SpecObserver == InitObserver /\ [][NextObserver]_vars

-----------------------------------------------------------------------------
(* The dork generator, as far as the driver needs it: the list is the      *)
(* concatenation of the selected categories' templates, in selection       *)
(* order, then the probes of the alternate domains, without duplicates.    *)
(* A dork text is modelled by a number: category c has the one template c. *)

\* the answers promptDorkTypes can resolve to: the selected categories in the
\* order of selection, each once, at least one
TypeSelections ==
  {s \in SeqsUpTo(1..NumCats, NumCats) :
     Len(s) > 0 /\ \A a, b \in 1..Len(s) : a # b => s[a] # s[b]}

\* generate<Category>Dorks(domain)
Templates(c) == <<c>>

\* the dorks pushed for the alternate domains
AltDomainDorks == <<0>>

RECURSIVE Dedup(_, _)
\* [...new Set(dorks)]: the first occurrence of each element, in order
Dedup(s, seen) ==
  IF s = <<>> THEN <<>>
  ELSE IF Head(s) \in seen THEN Dedup(Tail(s), seen)
  ELSE <<Head(s)>> \o Dedup(Tail(s), seen \cup {Head(s)})

RECURSIVE ConcatTemplates(_)
ConcatTemplates(types) ==
  IF types = <<>> THEN <<>>
  ELSE Templates(Head(types)) \o ConcatTemplates(Tail(types))

\* generateDorksList(types, domain)
generateDorksList(types) == Dedup(ConcatTemplates(types) \o AltDomainDorks, {})

-----------------------------------------------------------------------------
(* The dork generator, text by text: generateDorksList of dork-scanner.js   *)
(* with the template lists of dorks-config.js and the settings of           *)
(* domain-config.js. A dork is a string; a template `site:${domain} x` is   *)
(* the concatenation "site:" \o domain \o " x". The domain, the selection   *)
(* of categories and the two settings that generateDorksList reads are      *)
(* drawn; the alternate domains and the paths are those of the file.        *)

\* dorks-config.js: the 65 generic templates, in the order of the file
generateGenericDorks(domain) ==
  <<"site:" \o domain \o " filetype:env OR filetype:yml password",
    "site:" \o domain \o " filetype:xml password",
    "site:" \o domain \o " filetype:log username password",
    "site:" \o domain \o " filetype:ini password OR key OR secret",
    "site:" \o domain \o " filetype:config password",
    "site:" \o domain \o " intext:\"API_KEY\" OR intext:\"apikey\" OR intext:\"api_key\"",
    "site:" \o domain \o " intext:\"SECRET_KEY\" OR intext:\"client_secret\"",
    "site:" \o domain \o " \"authorization: Bearer\"",
    "site:" \o domain \o " \"access_token\"",
    "site:" \o domain \o " intext:\"aws_access_key_id\" filetype:txt OR filetype:log",
    "site:" \o domain \o " intext:\"jdbc:mysql:\" -github",
    "site:" \o domain \o " \"password\" filetype:txt OR filetype:sql OR filetype:ini",
    "site:" \o domain \o " intitle:\"Index of\" \"parent directory\"",
    "site:" \o domain \o " intitle:\"Index of\" wp-admin",
    "site:" \o domain \o " inurl:\"/wp-content/uploads/\"",
    "site:" \o domain \o " intitle:\"Index of\" inurl:backup OR inurl:old OR inurl:bkp",
    "site:" \o domain \o " filetype:bak OR filetype:backup OR filetype:sql",
    "site:" \o domain \o " filetype:sql \"INSERT INTO\" -\"SQL dump\"",
    "site:" \o domain \o " filetype:sql intext:password",
    "site:" \o domain \o " filetype:log",
    "site:" \o domain \o " intext:\"<!ENTITY % xx SYSTEM xx;\"",
    "site:" \o domain \o " intext:\"syntax error\" filetype:sql",
    "site:" \o domain \o " filetype:json \"api\" OR \"key\" OR \"token\"",
    "site:" \o domain \o " filetype:conf \"location ~\"",
    "site:" \o domain \o " intitle:\"Apache HTTP Server\" intitle:\"documentation\"",
    "site:" \o domain \o " intext:\"Apache Tomcat/\" \"error report\"",
    "site:" \o domain \o " intext:\"nginx error log\"",
    "site:" \o domain \o " intitle:\"Welcome to nginx!\" intext:\"Welcome to nginx\"",
    "site:" \o domain \o " intitle:\"403 Forbidden\" intext:\"nginx\"",
    "site:" \o domain \o " inurl:login OR inurl:admin OR inurl:backend",
    "site:" \o domain \o " inurl:\"/phpinfo.php\" OR inurl:\".php?mode=phpinfo\"",
    "site:" \o domain \o " inurl:\"/phpmyadmin/\" OR inurl:\"/adminer.php\"",
    "site:" \o domain \o " inurl:\"/wp-login.php\" OR inurl:\"/administrator/\"",
    "site:" \o domain \o " inurl:\"/server-status\" OR inurl:\"/server-info\"",
    "site:" \o domain \o " inurl:\"/wp-json/wp/v2/users\"",
    "site:" \o domain \o " inurl:\"/api/swagger\" OR inurl:\"/swagger-ui.html\"",
    "site:" \o domain \o " inurl:\"/api/v1\" OR inurl:\"/api/v2\"",
    "site:" \o domain \o " inurl:\"/.git\" \"Index of /.git\"",
    "site:" \o domain \o " inurl:\"/actuator/health\" OR inurl:\"/actuator/env\"",
    "site:" \o domain \o " inurl:\"/.env\" OR inurl:\"/config.js\"",
    "site:" \o domain \o " inurl:\"/.well-known/\"",
    "site:" \o domain \o " \"error occured at line\" OR \"syntax error\"",
    "site:" \o domain \o " \"Warning:\" \"database\" \"on line\"",
    "site:" \o domain \o " \"ERROR: The requested URL could not be retrieved\"",
    "site:github.com " \o domain,
    "site:gitlab.com " \o domain,
    "site:bitbucket.org " \o domain,
    "site:pastebin.com " \o domain,
    "site:jsfiddle.net " \o domain,
    "site:codepen.io " \o domain,
    "site:trello.com " \o domain,
    "site:*." \o domain \o " inurl:test OR inurl:dev OR inurl:stage OR inurl:beta",
    "site:*." \o domain \o " inurl:uat OR inurl:qa OR inurl:staging",
    "site:test." \o domain \o " OR site:dev." \o domain \o " OR site:stage." \o domain \o " OR site:stg." \o domain,
    "site:*." \o domain \o " -www intext:admin OR intext:login",
    "site:s3.amazonaws.com " \o domain,
    "site:blob.core.windows.net " \o domain,
    "site:storage.googleapis.com " \o domain,
    "site:cloudfront.net " \o domain,
    "site:digitaloceanspaces.com " \o domain,
    "site:" \o domain \o " inurl:\"server-status\" OR inurl:\"status.php\"",
    "site:" \o domain \o " intext:\"Fatal error: Call to undefined function\"",
    "site:" \o domain \o " inurl:\"?page=\" OR inurl:\"?file=\" OR inurl:\"?id=\"",
    "site:" \o domain \o " inurl:\"?php=\" OR inurl:\"?lang=\"",
    "site:" \o domain \o " ext:json OR ext:xml OR ext:conf OR ext:cnf OR ext:reg OR ext:inf OR ext:rdp OR ext:cfg OR ext:txt OR ext:ora OR ext:ini">>

\* dorks-config.js: the 20 Adobe Experience Manager templates, in the order of the file
generateAEMDorks(domain) ==
  <<"site:" \o domain \o " inurl:crx",
    "site:" \o domain \o " inurl:bin/querybuilder.json",
    "site:" \o domain \o " inurl:.infinity.json",
    "site:" \o domain \o " inurl:.1.json",
    "site:" \o domain \o " inurl:.tidy.json",
    "site:" \o domain \o " inurl:.model.json",
    "site:" \o domain \o " inurl:/libs/granite/security/currentuser.json",
    "site:" \o domain \o " inurl:/system/console",
    "site:" \o domain \o " inurl:/crx/de/index.jsp",
    "site:" \o domain \o " inurl:/crx/explorer",
    "site:" \o domain \o " inurl:/etc/replication",
    "site:" \o domain \o " inurl:/etc/dam",
    "site:" \o domain \o " inurl:/system/sling/cqform",
    "site:" \o domain \o " inurl:/apps/",
    "site:" \o domain \o " inurl:/content/dam",
    "site:" \o domain \o " inurl:felix/bundles",
    "site:" \o domain \o " inurl:etc/clientlibs",
    "site:" \o domain \o " inurl:system/console/configMgr",
    "site:" \o domain \o " inurl:.servlet.json",
    "site:" \o domain \o " inurl:.servlet.html">>

\* dorks-config.js: the 20 content management systems templates, in the order of the file
generateCMSDorks(domain) ==
  <<"site:" \o domain \o " inurl:wp-content",
    "site:" \o domain \o " inurl:wp-includes",
    "site:" \o domain \o " inurl:wp-admin",
    "site:" \o domain \o " inurl:wp-config.php",
    "site:" \o domain \o " inurl:wp-json/wp/v2/users",
    "site:" \o domain \o " inurl:xmlrpc.php",
    "site:" \o domain \o " inurl:index.php?option=com_",
    "site:" \o domain \o " inurl:/administrator/index.php",
    "site:" \o domain \o " intext:\"Joomla! Debug Console\"",
    "site:" \o domain \o " inurl:com_users",
    "site:" \o domain \o " inurl:/?q=user/",
    "site:" \o domain \o " inurl:/?q=admin/",
    "site:" \o domain \o " intext:\"Powered by Drupal\" inurl:user",
    "site:" \o domain \o " inurl:/sites/default/files/",
    "site:" \o domain \o " inurl:/app/etc/local.xml",
    "site:" \o domain \o " inurl:/downloader/",
    "site:" \o domain \o " intext:\"Mage.Cookies.path\"",
    "site:" \o domain \o " inurl:/admin_SOMETHING",
    "site:" \o domain \o " inurl:\"/administrator/\"",
    "site:" \o domain \o " inurl:\"/admin/\" OR inurl:\"/cp/\" OR inurl:\"/backend/\"">>

\* dorks-config.js: the 8 e-commerce and payment pages templates, in the order of the file
generateEcommerceDorks(domain) ==
  <<"site:" \o domain \o " inurl:/checkout/ OR inurl:/cart/ OR inurl:/basket/",
    "site:" \o domain \o " inurl:/order OR inurl:/payment OR inurl:/transaction",
    "site:" \o domain \o " intext:\"credit card\" OR intext:\"card number\"",
    "site:" \o domain \o " inurl:checkout.php OR inurl:checkout.asp OR inurl:checkout.jsp",
    "site:" \o domain \o " intext:\"cvv\" OR intext:\"cvc\" inurl:payment",
    "site:" \o domain \o " intext:\"payment gateway\" OR intext:\"gateway id\"",
    "site:" \o domain \o " intext:\"CHECKOUT_SESSION_ID\"",
    "site:" \o domain \o " filetype:log intext:payment">>

\* domain-config.js
ALTERNATIVE_DOMAINS == <<"adm.tesla.com", "web.tesla.com">>

\* domain-config.js: DOMAIN_SETTINGS.paths
Paths == <<"/wp-content", "/admin", "/api">>

\* lines 134-151: the switch on the category number
CategoryDorks(type, domain) ==
  CASE type = 1 -> generateGenericDorks(domain)
    [] type = 2 -> generateAEMDorks(domain)
    [] type = 3 -> generateCMSDorks(domain)
    [] type = 4 -> generateEcommerceDorks(domain)
    [] OTHER -> <<>>

RECURSIVE SelectedDorks(_, _)
\* lines 133-151: types.forEach, each category appended to dorks
SelectedDorks(types, domain) ==
  IF types = <<>> THEN <<>>
  ELSE CategoryDorks(Head(types), domain) \o SelectedDorks(Tail(types), domain)

RECURSIVE AltDorks(_)
\* lines 154-161: the three probes pushed for each alternate domain
AltDorks(alts) ==
  IF alts = <<>> THEN <<>>
  ELSE <<"site:" \o Head(alts),
         "site:" \o Head(alts) \o " inurl:admin",
         "site:" \o Head(alts) \o " filetype:log">> \o AltDorks(Tail(alts))

\* lines 163-168: one entry pushed for each path
PathDorks(domain) ==
  [k \in 1..Len(Paths) |-> "site:" \o domain \o " inurl:" \o Paths[k]]

\* lines 132-168: the array dorks before the duplicates are removed
RawDorks(types, domain, cfg) ==
  SelectedDorks(types, domain)
    \o (IF cfg.includeVariations /\ Len(ALTERNATIVE_DOMAINS) > 0
        THEN AltDorks(ALTERNATIVE_DOMAINS) ELSE <<>>)
    \o (IF cfg.limitPaths /\ Len(Paths) > 0 THEN PathDorks(domain) ELSE <<>>)

\* a generator that returns the array as it was filled
Unique_Keep(s) == s

RECURSIVE Unique_KeepLast(_)
\* a generator that keeps of each dork its last occurrence
Unique_KeepLast(s) ==
  IF Len(s) <= 1 THEN s
  ELSE LET h == Len(s) \div 2
           a == Unique_KeepLast(SubSeq(s, 1, h))
           b == Unique_KeepLast(SubSeq(s, h + 1, Len(s)))
           later == Range(b)
       IN  SelectSeq(a, LAMBDA x : x \notin later) \o b

RECURSIVE Unique(_)
\* line 170: [...new Set(dorks)]: a Set keeps the order of insertion, so that
\* each element stays at its first occurrence. Computed by halves: the unique
\* elements of the first half, then those of the second half not among them.
Unique(s) ==
  IF Len(s) <= 1 THEN s
  ELSE LET h == Len(s) \div 2
           a == Unique(SubSeq(s, 1, h))
           b == Unique(SubSeq(s, h + 1, Len(s)))
           seen == Range(a)
       IN  a \o SelectSeq(b, LAMBDA x : x \notin seen)

\* generateDorksList(types, domain) under the settings cfg
generateDorksListText(types, domain, cfg) == Unique(RawDorks(types, domain, cfg))

\* the selections promptDorkTypes resolves to: Array.from of a Set of the
\* categories 1..4 in the order they were added, at least one
Selections ==
  {s \in SeqsUpTo(1..4, 4) :
     Len(s) > 0 /\ \A a, b \in 1..Len(s) : a # b => s[a] # s[b]}

\* the domains drawn for TARGET_DOMAIN: three domains, one of them an alternate
\* domain as well, the empty string and a string with a blank
GenDomains == {"tesla.com", "adm.tesla.com", "example.com", "", "exa mple"}

InitGen ==
  /\ file = Absent /\ ScanIdle /\ rt = RtIdle /\ det = DetIdle /\ ho = HoIdle
  /\ sw = SwIdle /\ obs = ObsIdle /\ loop = LpIdle
  /\ \E ty \in Selections, d \in GenDomains, iv \in BOOLEAN, lp \in BOOLEAN :
       gen = [phase |-> "call", types |-> ty, domain |-> d,
              cfg |-> [includeVariations |-> iv, limitPaths |-> lp],
              out |-> <<>>, raised |-> FALSE]

\* line 288: generateDorksList(selectedTypes, TARGET_DOMAIN) returns
Generate ==
  /\ gen.phase = "call"
  /\ gen' = [gen EXCEPT !.phase = "done",
                        !.out = generateDorksListText(gen.types, gen.domain, gen.cfg)]
  /\ UNCHANGED <<file, scanVars, rt, det, ho, sw, obs, loop>>

NextGen == Generate

SpecGen == InitGen /\ [][NextGen]_vars

-----------------------------------------------------------------------------
(* The scan driver: runMultiEngineDorkScan and what it calls.              *)

\* the driver pauses for a confirmation after every PauseEvery-th index
PauseEvery == 10

\* a driver that pauses after the last dork of the list as well
ShouldPause_AlsoLast(j, n) == (j + 1) % PauseEvery = 0

\* line 355: the test of the pause for the loop index j and a list of n dorks
ShouldPause(j, n) == (j + 1) % PauseEvery = 0 /\ j < n - 1

-----------------------------------------------------------------------------
(* The loop of the driver over a long list, SpecPause: lines 327-361 for a  *)
(* list of n dorks, entered at startIndex, with at most one dork from        *)
(* startIndex on that processedDorks holds already (at index skip, -1 for    *)
(* none). What processDorkDisplayMode and saveCheckpoint do is left to Spec. *)
(* handled counts the dorks the run has processed; pauses holds, for every   *)
(* pause, the index after which it came and the count at that moment.        *)

InitPause ==
  /\ file = Absent /\ ScanIdle /\ rt = RtIdle /\ det = DetIdle /\ ho = HoIdle
  /\ sw = SwIdle /\ gen = GenIdle /\ obs = ObsIdle
  /\ \E n \in 0..MaxDorks :
       \E st \in 0..n :
         \E sk \in {-1} \cup st..(n - 1) :
           loop = [phase |-> "head", n |-> n, start |-> st, skip |-> sk, i |-> st,
                   handled |-> 0, pauses |-> {}]

\* lines 331-334: the dork is in processedDorks already, continue
LpSkip ==
  /\ loop.phase = "head" /\ loop.i < loop.n /\ loop.i = loop.skip
  /\ loop' = [loop EXCEPT !.i = @ + 1]
  /\ UNCHANGED <<file, scanVars, rt, det, ho, sw, gen, obs>>

\* line 337: processDorkDisplayMode is called for dorks[i]
LpEnter ==
  /\ loop.phase = "head" /\ loop.i < loop.n /\ loop.i # loop.skip
  /\ loop' = [loop EXCEPT !.phase = "await"]
  /\ UNCHANGED <<file, scanVars, rt, det, ho, sw, gen, obs>>

\* line 327: i < dorks.length fails, the loop is left
LpLeave ==
  /\ loop.phase = "head" /\ loop.i >= loop.n
  /\ loop' = [loop EXCEPT !.phase = "done"]
  /\ UNCHANGED <<file, scanVars, rt, det, ho, sw, gen, obs>>

\* lines 337-357: the dork is processed and saved; the pause, or the delay
LpProcess ==
  /\ loop.phase = "await"
  /\ loop' = IF ShouldPause(loop.i, loop.n)
             THEN [loop EXCEPT !.phase = "pause", !.handled = @ + 1,
                               !.pauses = @ \cup {<<loop.i, loop.handled + 1>>}]
             ELSE [loop EXCEPT !.phase = "delay", !.handled = @ + 1]
  /\ UNCHANGED <<file, scanVars, rt, det, ho, sw, gen, obs>>

\* line 356: the operator presses ENTER at the pause
LpConfirm ==
  /\ loop.phase = "pause"
  /\ loop' = [loop EXCEPT !.phase = "delay"]
  /\ UNCHANGED <<file, scanVars, rt, det, ho, sw, gen, obs>>

\* lines 360 and 327: the 100 ms timer fires, i++
LpDelay ==
  /\ loop.phase = "delay"
  /\ loop' = [loop EXCEPT !.phase = "head", !.i = @ + 1]
  /\ UNCHANGED <<file, scanVars, rt, det, ho, sw, gen, obs>>

NextPause == LpSkip \/ LpEnter \/ LpLeave \/ LpProcess \/ LpConfirm \/ LpDelay

SpecPause == InitPause /\ [][NextPause]_vars

\* the history at the start of a run, prev being the history of the run before.
\* opened, confirmed: a browser was opened for the current dork, the operator
\* confirmed at its prompt; maxSaved: the highest index this run saved; doneIdx:
\* the indices whose processing completed in this run;
\* removed, errored, intr, completed: the run removed the checkpoint, entered its
\* catch block, got SIGINT before it had finished, returned from its try block;
\* cDorks, cResults: dorks and results of the run when it completed; prev...: the
\* same of the run before
HistStart(prev) ==
  [opened |-> FALSE, confirmed |-> FALSE, maxSaved |-> -1,
   removed |-> FALSE, errored |-> FALSE, intr |-> FALSE,
   completed |-> FALSE, cDorks |-> <<>>, cResults |-> <<>>,
   doneIdx |-> {},
   prevCompleted |-> prev.completed, prevDorks |-> prev.cDorks,
   prevResults |-> prev.cResults]

Init ==
  /\ file = Absent /\ dirsExist = FALSE
  /\ proc = "running" /\ exitCode = 0 /\ exitBy = "none" /\ sig = "none"
  /\ pc = "setup" /\ dorks = <<>> /\ checkpoint = Sentinel
  /\ startIndex = JSNum(0) /\ i = JSNum(0) /\ processedDorks = <<>>
  /\ reportContent = "" /\ results = <<>>
  /\ stats = [dorksProcessed |-> 0, manuallyChecked |-> 0]
  /\ browser = NoBrowser /\ out = [list |-> 0, text |-> 0, stats |-> 0, error |-> 0]
  /\ rlClosed = FALSE /\ hiClosed = FALSE /\ marker = "none"
  /\ hist = HistStart([completed |-> FALSE, cDorks |-> <<>>, cResults |-> <<>>])
  /\ rt = RtIdle /\ det = DetIdle /\ ho = HoIdle /\ sw = SwIdle /\ gen = GenIdle /\ obs = ObsIdle /\ loop = LpIdle

\* what no step of the driver changes: the variables of the other
\* specifications, and the interface of the human-interaction module, since
\* the driver imports closeInterface (line 41) and never calls it
others == <<hiClosed, rt, det, ho, sw, gen, obs, loop>>

\* the driver is at an await and the process is alive
At(p) == proc = "running" /\ pc = p

\* dorks[i] for the loop index i (JavaScript counts from 0)
DorkAt(ds, j) == ds[j + 1]

\* the loop without its test of processedDorks
NextIndex_NoSkip(j, ds, P) == IF j >= Len(ds) THEN Len(ds) ELSE j

RECURSIVE NextIndex(_, _, _)
\* the for loop from index j on, up to its next await: the indices whose dork is
\* in processedDorks are passed over (continue); the result is the index of the
\* dork to process, or dorks.length when the loop is left
NextIndex(j, ds, P) ==
  IF j >= Len(ds) THEN Len(ds)
  ELSE IF DorkAt(ds, j) \in Range(P) THEN NextIndex(j + 1, ds, P)
  ELSE j

\* the loop is entered or continued at index j (a value): the driver stops at the
\* question of processDorkDisplayMode, or leaves the loop and starts writing the
\* dork list. With i = NaN the test i < dorks.length fails at once.
EnterLoop(j, ds, P) ==
  IF LessThan(j, Len(ds))
  THEN LET n == NextIndex(j.v, ds, P) IN
       /\ i' = JSNum(n)
       /\ pc' = IF n < Len(ds) THEN "ask" ELSE "reports"
  ELSE /\ i' = j
       /\ pc' = "reports"

\* lines 268-299: the confirmations, promptDorkTypes, generateDorksList and the
\* three ensureDir, up to the call of loadCheckpoint
Setup ==
  /\ At("setup")
  /\ \E types \in TypeSelections, ok \in BOOLEAN :
       /\ dorks' = generateDorksList(types)
       /\ IF ok \/ dirsExist
          THEN dirsExist' = TRUE /\ pc' = "load" /\ hist' = hist
          ELSE dirsExist' = dirsExist /\ pc' = "catch"
               /\ hist' = [hist EXCEPT !.errored = TRUE]
  /\ UNCHANGED <<file, proc, exitCode, exitBy, sig, checkpoint, startIndex, i,
                 processedDorks, reportContent, results, stats, browser, out,
                 rlClosed, marker, others>>

\* toList: the elements of an array value
ArrList(a) == [k \in 1..Len(a.v) |-> a.v[k].v]

\* lines 301-327: loadCheckpoint returns; startIndex, processedDorks, reportContent
\* and stats are set and the loop is entered
Load ==
  /\ At("load")
  /\ \E readOk \in BOOLEAN :
       LET r == loadCheckpoint(file, readOk)
           ck == r.value
           P == IF Truthy(ck.processedDorks) THEN ArrList(ck.processedDorks) ELSE <<>>
       IN  IF r.raised
           THEN /\ pc' = "catch" /\ hist' = [hist EXCEPT !.errored = TRUE]
                /\ UNCHANGED <<checkpoint, startIndex, i, processedDorks, reportContent>>
           ELSE /\ checkpoint' = ck
                /\ startIndex' = PlusOne(ck.lastIndex)
                /\ processedDorks' = P
                /\ reportContent' = IF Truthy(ck.reportContent)
                                    THEN ck.reportContent.v ELSE ""
                /\ EnterLoop(PlusOne(ck.lastIndex), dorks, P)
                /\ hist' = [hist EXCEPT !.opened = FALSE, !.confirmed = FALSE]
  /\ UNCHANGED <<file, dirsExist, proc, exitCode, exitBy, sig, dorks, results,
                 stats, browser, out, rlClosed, marker, others>>

\* the answers the operator can give to a prompt
Answers == {"s", "S", "n", ""}

\* askUserToCheckUrl: the answer is exactly "s", in either case
ShouldCheck(a) == ToLower(a) = "s"

\* a driver that does not count the dork in its statistics
Record_NoCount ==
  /\ results' = Append(results, DorkAt(dorks, i.v))
  /\ processedDorks' = Append(processedDorks, DorkAt(dorks, i.v))
  /\ stats' = stats
  /\ pc' = "save"

\* a driver that does not add the dork to processedDorks
Record_NoPush ==
  /\ results' = Append(results, DorkAt(dorks, i.v))
  /\ processedDorks' = processedDorks
  /\ stats' = [stats EXCEPT !.dorksProcessed = @ + 1]
  /\ pc' = "save"

\* lines 337-351: processDorkDisplayMode has returned; the result is pushed, the
\* dork is added to processedDorks and saveCheckpoint is called (its
\* fs.writeFile is in flight). result.manuallyChecked is never set.
Record ==
  /\ results' = Append(results, DorkAt(dorks, i.v))
  /\ processedDorks' = Append(processedDorks, DorkAt(dorks, i.v))
  /\ stats' = [stats EXCEPT !.dorksProcessed = @ + 1]
  /\ pc' = "save"

\* the operator answers the question of askUserToCheckUrl
Answer ==
  /\ At("ask")
  /\ \E a \in Answers :
       IF ShouldCheck(a)
       THEN /\ pc' = "launch"
            /\ hist' = hist
            /\ UNCHANGED <<results, processedDorks, stats>>
       ELSE /\ hist' = [hist EXCEPT !.doneIdx = @ \cup {i.v}]
            /\ Record
  /\ UNCHANGED <<file, dirsExist, proc, exitCode, exitBy, sig, dorks, checkpoint,
                 startIndex, i, reportContent, browser, out, rlClosed, marker, others>>

\* a driver that does not wait for openBrowserForUrl: the result is recorded and
\* the checkpoint written while the browser is open for inspection
Launch_NoAwait ==
  /\ At("launch")
  /\ browser' = [browser EXCEPT !.open = TRUE]
  /\ hist' = [hist EXCEPT !.opened = TRUE, !.doneIdx = @ \cup {i.v}]
  /\ Record
  /\ UNCHANGED <<file, dirsExist, proc, exitCode, exitBy, sig, dorks, checkpoint,
                 startIndex, i, reportContent, out, rlClosed, marker, others>>

\* an openBrowserForUrl without its try/catch: a failure of the launch or of the
\* navigation is thrown into the driver
Launch_Throws ==
  /\ At("launch")
  /\ \E outcome \in {"ok", "launchFails", "gotoFails"} :
       CASE outcome = "ok" ->
              /\ browser' = [browser EXCEPT !.open = TRUE]
              /\ pc' = "inspect"
              /\ hist' = [hist EXCEPT !.opened = TRUE]
         [] outcome = "launchFails" ->
              /\ browser' = browser
              /\ pc' = "catch" /\ hist' = [hist EXCEPT !.errored = TRUE]
         [] outcome = "gotoFails" ->
              /\ browser' = [browser EXCEPT !.leaked = TRUE]
              /\ pc' = "catch" /\ hist' = [hist EXCEPT !.errored = TRUE]
  /\ UNCHANGED <<results, processedDorks, stats>>
  /\ UNCHANGED <<file, dirsExist, proc, exitCode, exitBy, sig, dorks, checkpoint,
                 startIndex, i, reportContent, out, rlClosed, marker, others>>

\* openBrowserForUrl up to its prompt: puppeteer.launch, newPage, setUserAgent,
\* evaluateOnNewDocument and goto. A failure is caught and logged by
\* openBrowserForUrl, which returns; a failure after the launch leaves the
\* browser open.
Launch ==
  /\ At("launch")
  /\ \E outcome \in {"ok", "launchFails", "gotoFails"} :
       CASE outcome = "ok" ->
              /\ browser' = [browser EXCEPT !.open = TRUE]
              /\ pc' = "inspect"
              /\ hist' = [hist EXCEPT !.opened = TRUE]
              /\ UNCHANGED <<results, processedDorks, stats>>
         [] outcome = "launchFails" ->
              /\ browser' = browser
              /\ hist' = [hist EXCEPT !.doneIdx = @ \cup {i.v}]
              /\ Record
         [] outcome = "gotoFails" ->
              /\ browser' = [browser EXCEPT !.leaked = TRUE]
              /\ hist' = [hist EXCEPT !.opened = TRUE, !.doneIdx = @ \cup {i.v}]
              /\ Record
  /\ UNCHANGED <<file, dirsExist, proc, exitCode, exitBy, sig, dorks, checkpoint,
                 startIndex, i, reportContent, out, rlClosed, marker, others>>

\* the operator presses ENTER at the prompt of openBrowserForUrl; the browser is
\* closed and processDorkDisplayMode returns
Confirm ==
  /\ At("inspect")
  /\ browser' = [browser EXCEPT !.open = FALSE]
  /\ hist' = [hist EXCEPT !.confirmed = TRUE, !.doneIdx = @ \cup {i.v}]
  /\ Record
  /\ UNCHANGED <<file, dirsExist, proc, exitCode, exitBy, sig, dorks, checkpoint,
                 startIndex, i, reportContent, out, rlClosed, marker, others>>

\* lines 354-360 after saveCheckpoint has returned: the pause after every
\* tenth index that is not the last, else the 100 ms delay
AfterSave ==
  pc' = IF ShouldPause(i.v, Len(dorks)) THEN "pause" ELSE "delay"

\* saveCheckpoint: fs.writeFile opens the checkpoint file, which truncates it; or
\* the open fails, which saveCheckpoint catches and logs
SaveOpen ==
  /\ At("save")
  /\ \E ok \in BOOLEAN :
       IF ok
       THEN /\ file' = WriteFileOpen(file)
            /\ pc' = "saving"
            /\ hist' = hist
       ELSE /\ file' = file
            /\ AfterSave
            /\ hist' = hist
  /\ UNCHANGED <<dirsExist, proc, exitCode, exitBy, sig, dorks, checkpoint,
                 startIndex, i, processedDorks, reportContent, results, stats, browser,
                 out, rlClosed, marker, others>>

\* the lengths at which the write of the text ends in Spec: nothing written (the
\* write fails) or the whole text (SpecCkpt cuts the text at every length)
CutLengths(text) == {0, Len(text)}

\* a driver that records the index of the dork that follows the completed one
SaveWrite_NextIndex ==
  /\ At("saving")
  /\ LET text == CheckpointText(i.v + 1, JSStr(reportContent), processedDorks, Now) IN
     \E n \in CutLengths(text) :
       /\ file' = IF n = Len(text) THEN WriteFileData(file, text)
                  ELSE WriteFilePartial(file, text, n)
       /\ hist' = IF n = Len(text) THEN [hist EXCEPT !.maxSaved = i.v] ELSE hist
  /\ AfterSave
  /\ UNCHANGED <<dirsExist, proc, exitCode, exitBy, sig, dorks, checkpoint,
                 startIndex, i, processedDorks, reportContent, results, stats, browser,
                 out, rlClosed, marker, others>>

\* saveCheckpoint: fs.writeFile writes the text and saveCheckpoint returns; or the
\* write fails part-way, which saveCheckpoint catches and logs
SaveWrite ==
  /\ At("saving")
  /\ LET text == CheckpointText(i.v, JSStr(reportContent), processedDorks, Now) IN
     \E n \in CutLengths(text) :
       /\ file' = IF n = Len(text) THEN WriteFileData(file, text)
                  ELSE WriteFilePartial(file, text, n)
       /\ hist' = IF n = Len(text) THEN [hist EXCEPT !.maxSaved = i.v] ELSE hist
  /\ AfterSave
  /\ UNCHANGED <<dirsExist, proc, exitCode, exitBy, sig, dorks, checkpoint,
                 startIndex, i, processedDorks, reportContent, results, stats, browser,
                 out, rlClosed, marker, others>>

\* a loop that starts over at index 0 without looking at processedDorks
Delay_StartsOver ==
  /\ At("delay")
  /\ EnterLoop(JSNum(0), dorks, <<>>)
  /\ hist' = [hist EXCEPT !.opened = FALSE, !.confirmed = FALSE]
  /\ UNCHANGED <<file, dirsExist, proc, exitCode, exitBy, sig, dorks, checkpoint,
                 startIndex, processedDorks, reportContent, results, stats, browser,
                 out, rlClosed, marker, others>>

\* the 100 ms timer fires: i++ and the loop goes on to its next await
Delay ==
  /\ At("delay")
  /\ EnterLoop(JSNum(i.v + 1), dorks, processedDorks)
  /\ hist' = [hist EXCEPT !.opened = FALSE, !.confirmed = FALSE]
  /\ UNCHANGED <<file, dirsExist, proc, exitCode, exitBy, sig, dorks, checkpoint,
                 startIndex, processedDorks, reportContent, results, stats, browser,
                 out, rlClosed, marker, others>>

\* the process is gone and its memory with it: the variables of the driver hold
\* nothing any more. What the run left on disk stays.
Dies ==
  /\ pc' = "off" /\ sig' = "none" /\ dorks' = <<>> /\ checkpoint' = Sentinel
  /\ startIndex' = JSNum(0) /\ i' = JSNum(0) /\ processedDorks' = <<>>
  /\ reportContent' = "" /\ results' = <<>>
  /\ stats' = [dorksProcessed |-> 0, manuallyChecked |-> 0]
  /\ browser' = NoBrowser
  /\ hist' = [hist EXCEPT !.opened = FALSE, !.confirmed = FALSE]

\* the driver enters its catch block: the error report's writeFile is in flight
ToCatch ==
  /\ pc' = "catch"
  /\ hist' = [hist EXCEPT !.errored = TRUE]

\* lines 363-370: the JSON dork list is written, or the write throws
WriteList ==
  /\ At("reports")
  /\ \E ok \in BOOLEAN :
       IF ok
       THEN pc' = "text" /\ out' = [out EXCEPT !.list = @ + 1] /\ hist' = hist
       ELSE ToCatch /\ out' = out
  /\ UNCHANGED <<file, dirsExist, proc, exitCode, exitBy, sig, dorks, checkpoint,
                 startIndex, i, processedDorks, reportContent, results, stats, browser,
                 rlClosed, marker, others>>

\* lines 373-377: the text dork list is written, or the write throws
WriteText ==
  /\ At("text")
  /\ \E ok \in BOOLEAN :
       IF ok
       THEN pc' = "statsw" /\ out' = [out EXCEPT !.text = @ + 1] /\ hist' = hist
       ELSE ToCatch /\ out' = out
  /\ UNCHANGED <<file, dirsExist, proc, exitCode, exitBy, sig, dorks, checkpoint,
                 startIndex, i, processedDorks, reportContent, results, stats, browser,
                 rlClosed, marker, others>>

\* lines 379-391: saveExecutionStats writes the statistics, or throws; then the
\* summary is printed and fs.pathExists(CHECKPOINT_FILE) is called
WriteStats ==
  /\ At("statsw")
  /\ \E ok \in BOOLEAN :
       IF ok
       THEN pc' = "cleanup" /\ out' = [out EXCEPT !.stats = @ + 1] /\ hist' = hist
       ELSE ToCatch /\ out' = out
  /\ UNCHANGED <<file, dirsExist, proc, exitCode, exitBy, sig, dorks, checkpoint,
                 startIndex, i, processedDorks, reportContent, results, stats, browser,
                 rlClosed, marker, others>>

\* the history when the try block of the driver ends
Completed == [hist EXCEPT !.completed = TRUE, !.cDorks = dorks, !.cResults = results]

\* a driver that leaves the checkpoint file in place on completion
Cleanup_KeepsFile ==
  /\ At("cleanup")
  /\ pc' = "done" /\ rlClosed' = TRUE
  /\ hist' = Completed
  /\ UNCHANGED <<file, dirsExist, proc, exitCode, exitBy, sig, dorks, checkpoint,
                 startIndex, i, processedDorks, reportContent, results, stats, browser,
                 out, marker, others>>

\* line 391: fs.pathExists answers. If the file exists fs.remove is called; if
\* not the try block ends, the finally block closes rl and the function returns
Cleanup ==
  /\ At("cleanup")
  /\ IF file.exists
     THEN pc' = "remove" /\ rlClosed' = rlClosed /\ hist' = hist
     ELSE pc' = "done" /\ rlClosed' = TRUE /\ hist' = Completed
  /\ UNCHANGED <<file, dirsExist, proc, exitCode, exitBy, sig, dorks, checkpoint,
                 startIndex, i, processedDorks, reportContent, results, stats, browser,
                 out, marker, others>>

\* a driver whose fs.remove reports success and leaves the file in place
Remove_NoDelete ==
  /\ At("remove")
  /\ file' = file
  /\ pc' = "done" /\ rlClosed' = TRUE
  /\ hist' = [Completed EXCEPT !.removed = TRUE]
  /\ UNCHANGED <<dirsExist, proc, exitCode, exitBy, sig, dorks, checkpoint,
                 startIndex, i, processedDorks, reportContent, results, stats, browser,
                 out, marker, others>>

\* lines 392-394 and 403-406: fs.remove deletes the checkpoint and the function
\* returns through finally; or fs.remove throws
Remove ==
  /\ At("remove")
  /\ \E ok \in BOOLEAN :
       IF ok
       THEN /\ file' = Absent
            /\ pc' = "done" /\ rlClosed' = TRUE
            /\ hist' = [Completed EXCEPT !.removed = TRUE]
       ELSE /\ file' = file
            /\ ToCatch /\ rlClosed' = rlClosed
  /\ UNCHANGED <<dirsExist, proc, exitCode, exitBy, sig, dorks, checkpoint,
                 startIndex, i, processedDorks, reportContent, results, stats, browser,
                 out, marker, others>>

\* a catch block without the finally that closes rl
Catch_NoClose ==
  /\ At("catch")
  /\ rlClosed' = rlClosed
  /\ \E ok \in BOOLEAN :
       IF ok /\ dirsExist
       THEN /\ out' = [out EXCEPT !.error = @ + 1]
            /\ pc' = "failed"
            /\ UNCHANGED <<proc, exitCode, exitBy>>
            /\ UNCHANGED <<sig, dorks, checkpoint, startIndex, i, processedDorks,
                           reportContent, results, stats, browser, hist>>
       ELSE /\ out' = out
            /\ proc' = "exited" /\ exitCode' = 1 /\ exitBy' = "fatal"
            /\ Dies
  /\ UNCHANGED <<file, dirsExist, marker, others>>

\* lines 396-406 and 434-439: the error report is written, finally closes rl and
\* the function returns (the caller's then prints success); or the write of the
\* error report throws (always when reports/ does not exist), finally closes rl,
\* the promise is rejected and the caller's catch calls process.exit(1)
Catch ==
  /\ At("catch")
  /\ rlClosed' = TRUE
  /\ \E ok \in BOOLEAN :
       IF ok /\ dirsExist
       THEN /\ out' = [out EXCEPT !.error = @ + 1]
            /\ pc' = "failed"
            /\ UNCHANGED <<proc, exitCode, exitBy>>
            /\ UNCHANGED <<sig, dorks, checkpoint, startIndex, i, processedDorks,
                           reportContent, results, stats, browser, hist>>
       ELSE /\ out' = out
            /\ proc' = "exited" /\ exitCode' = 1 /\ exitBy' = "fatal"
            /\ Dies
  /\ UNCHANGED <<file, dirsExist, marker, others>>

-----------------------------------------------------------------------------
(* The environment of the process: it can be killed at any time, it can be *)
(* sent SIGINT at any time, and the program can be started again.          *)

\* the process dies without running any handler (SIGKILL, power loss)
Crash ==
  /\ proc = "running"
  /\ proc' = "crashed"
  /\ Dies
  /\ UNCHANGED <<file, dirsExist, exitCode, exitBy, out, rlClosed, marker, others>>

\* lines 419-425: SIGINT arrives; the handler runs up to its await, with the
\* writeFile of the marker in flight. The driver goes on running meanwhile.
Sigint ==
  /\ proc = "running" /\ sig = "none"
  /\ sig' = "marker"
  /\ hist' = [hist EXCEPT !.intr = pc \notin {"done", "failed"}]
  /\ UNCHANGED <<file, dirsExist, proc, exitCode, exitBy, pc, dorks, checkpoint,
                 startIndex, i, processedDorks, reportContent, results, stats, browser,
                 out, rlClosed, marker, others>>

\* a handler without its try/catch: a failing marker write ends the handler
\* before process.exit
HandlerExit_NoCatch ==
  /\ proc = "running" /\ sig = "marker"
  /\ \E ok \in BOOLEAN :
       IF ok /\ dirsExist
       THEN /\ marker' = "written" /\ sig' = sig
            /\ proc' = "exited" /\ exitCode' = 0 /\ exitBy' = "sigint"
       ELSE /\ marker' = "failed" /\ sig' = "thrown"
            /\ UNCHANGED <<proc, exitCode, exitBy>>
  /\ UNCHANGED <<file, dirsExist, pc, dorks, checkpoint, startIndex, i,
                 processedDorks, reportContent, results, stats, browser, out, rlClosed,
                 hist, others>>

\* lines 425-428: the marker's writeFile settles (it fails when reports/ does not
\* exist, and may fail otherwise); the failure is ignored; process.exit(0)
HandlerExit ==
  /\ proc = "running" /\ sig = "marker"
  /\ \E ok \in BOOLEAN :
       marker' = IF ok /\ dirsExist THEN "written" ELSE "failed"
  /\ proc' = "exited" /\ exitCode' = 0 /\ exitBy' = "sigint"
  /\ Dies
  /\ UNCHANGED <<file, dirsExist, out, rlClosed, others>>

\* the operator starts the program again, any number of times; the disk is as the
\* last run left it
NewRun ==
  /\ proc \in {"exited", "crashed"}
  /\ proc' = "running" /\ exitCode' = 0 /\ exitBy' = "none" /\ sig' = "none"
  /\ pc' = "setup" /\ dorks' = <<>> /\ checkpoint' = Sentinel
  /\ startIndex' = JSNum(0) /\ i' = JSNum(0) /\ processedDorks' = <<>>
  /\ reportContent' = "" /\ results' = <<>>
  /\ stats' = [dorksProcessed |-> 0, manuallyChecked |-> 0]
  /\ browser' = NoBrowser /\ out' = [list |-> 0, text |-> 0, stats |-> 0, error |-> 0]
  /\ rlClosed' = FALSE /\ marker' = "none"
  /\ hist' = HistStart(hist)
  /\ UNCHANGED <<file, dirsExist, others>>

Next ==
  \/ Setup \/ Load \/ Answer \/ Launch \/ Confirm \/ SaveOpen \/ SaveWrite \/ Delay
  \/ WriteList \/ WriteText \/ WriteStats \/ Cleanup \/ Remove \/ Catch
  \/ Crash \/ Sigint \/ HandlerExit \/ NewRun

Spec == Init /\ [][Next]_vars

\* the list that every run generates when the operator selects all categories
\* in their order
FixedList == generateDorksList([c \in 1..NumCats |-> c])

NextSame ==
  \/ (Setup /\ dorks' = FixedList) \/ Load \/ Answer \/ Launch \/ Confirm \/ SaveOpen \/ SaveWrite \/ Delay
  \/ WriteList \/ WriteText \/ WriteStats \/ Cleanup \/ Remove \/ Catch
  \/ Crash \/ Sigint \/ HandlerExit \/ NewRun

\* the runs of the program on one and the same dork list
SpecSame == Init /\ [][NextSame]_vars

\* checkpoint files that the first run may find: none, a record of the
\* program, a record cut short, the object {} and an object without lastIndex
InitForeign ==
  /\ LET text == CheckpointText(0, JSStr(""), <<1>>, Now) IN
     file \in
     { Absent,
       WriteFileData(Absent, text),
       WriteFilePartial(Absent, text, Len(text) - 1),
       WriteFileData(Absent, JSONstringify(<<>>)),
       WriteFileData(Absent, JSONstringify(<< <<"reportContent", JSStr("")>>,
                                              <<"processedDorks", StrArr(<<1>>)>> >>)) }
  /\ dirsExist = FALSE
  /\ proc = "running" /\ exitCode = 0 /\ exitBy = "none" /\ sig = "none"
  /\ pc = "setup" /\ dorks = <<>> /\ checkpoint = Sentinel
  /\ startIndex = JSNum(0) /\ i = JSNum(0) /\ processedDorks = <<>>
  /\ reportContent = "" /\ results = <<>>
  /\ stats = [dorksProcessed |-> 0, manuallyChecked |-> 0]
  /\ browser = NoBrowser /\ out = [list |-> 0, text |-> 0, stats |-> 0, error |-> 0]
  /\ rlClosed = FALSE /\ hiClosed = FALSE /\ marker = "none"
  /\ hist = HistStart([completed |-> FALSE, cDorks |-> <<>>, cResults |-> <<>>])
  /\ rt = RtIdle /\ det = DetIdle /\ ho = HoIdle /\ sw = SwIdle /\ gen = GenIdle
  /\ obs = ObsIdle /\ loop = LpIdle

\* the runs of the program on one list, the first of them finding a checkpoint
\* file that it has not written
SpecForeign == InitForeign /\ [][NextSame]_vars

\* the event loop runs a callback whose operation has settled: the marker write
\* of the SIGINT handler settles and the handler goes on
SpecFair == Spec /\ WF_vars(HandlerExit)

-----------------------------------------------------------------------------
(* The properties of the checkpoint as the driver keeps it.                *)

\* the record in the checkpoint file, when the file holds one
FileRecord == JSONparse(file.content)

\* the driver is inside processDorkDisplayMode for dorks[i]
InStep == proc = "running" /\ pc \in {"ask", "launch", "inspect"}

\* C1: whenever the checkpoint file holds a record that this run wrote, its
\* lastIndex is the index of a dork whose processing this run has completed and
\* the highest index the run has saved; it is never the index of the dork in
\* progress nor of a dork the loop has not reached. This holds in the states a
\* crash or an interrupt leaves behind as well.
C1_LastIndexCompleted ==
  (file.exists /\ FileRecord.ok /\ hist.maxSaved >= 0) =>
     /\ FileRecord.val.lastIndex = JSNum(hist.maxSaved)
     /\ hist.maxSaved \in hist.doneIdx
     /\ InStep => hist.maxSaved < i.v

\* the record of index 1 is on disk while the dork of index 2 is in its browser step
C1_Witness ==
  /\ file.exists /\ FileRecord.ok /\ hist.maxSaved = 1
  /\ At("inspect") /\ i = JSNum(2)

\* saveCheckpoint has been called for dorks[i] and has not returned
Saving == proc = "running" /\ pc \in {"save", "saving"}

\* C2 as stated: whenever the checkpoint write for index i is issued and a browser
\* was opened for dork i, the operator has confirmed at the prompt of the browser
\* step.
C2_ConfirmedBeforeSave == (Saving /\ hist.opened) => hist.confirmed

\* C2, amended: the checkpoint write for index i is issued only after
\* processDorkDisplayMode has returned for dork i, never at its question or in its
\* browser step and never with the browser under inspection open; when a browser
\* was opened for dork i, either the operator has confirmed or the navigation
\* failed, and then the browser was left running.
C2_SaveAfterStep ==
  /\ Saving => /\ i.v \in hist.doneIdx
               /\ ~browser.open
               /\ hist.opened => (hist.confirmed \/ browser.leaked)
  /\ InStep => i.v \notin hist.doneIdx
  /\ (file.exists /\ FileRecord.ok /\ hist.maxSaved >= 0 /\ InStep) =>
        FileRecord.val.lastIndex # i

\* the checkpoint write of index 1 is in flight after the operator's confirmation
C2_Witness ==
  /\ At("saving") /\ i = JSNum(1) /\ hist.opened /\ hist.confirmed /\ ~browser.leaked

\* the run has loaded its checkpoint and its process is alive
Loaded == proc = "running" /\ pc \notin {"setup", "load", "off"}

\* the processedDorks of the checkpoint the run started with
LoadedProcessed ==
  IF Truthy(checkpoint.processedDorks) THEN Range(ArrList(checkpoint.processedDorks))
  ELSE {}

\* the indices the run has taken up: those completed and the one in progress
TakenUp == hist.doneIdx \cup (IF InStep THEN {i.v} ELSE {})

\* the loop of the driver has been left through its test
LoopLeft == pc \in {"reports", "text", "statsw", "cleanup", "remove", "done"}

\* C3: a run that started from the checkpoint {lastIndex k, processedDorks P}
\* takes up no dork at an index <= k and no dork whose text is in P; once the
\* loop is left every other dork of the list has been processed.
C3_ResumeSkips ==
  Loaded =>
    /\ \A j \in TakenUp :
         /\ LessThan(checkpoint.lastIndex, j)
         /\ DorkAt(dorks, j) \notin LoadedProcessed
    /\ LoopLeft =>
         \A j \in 0..(Len(dorks) - 1) :
           (LessThan(checkpoint.lastIndex, j) /\ DorkAt(dorks, j) \notin LoadedProcessed)
             => j \in hist.doneIdx

\* a run resumed after index 0 of another list has finished: it passed over a
\* dork beyond index 0 because its text was in the checkpoint, and processed another
C3_Witness ==
  /\ At("done") /\ checkpoint.lastIndex = JSNum(0)
  /\ \E j \in 1..(Len(dorks) - 1) : DorkAt(dorks, j) \in LoadedProcessed
  /\ hist.doneIdx # {}

\* C4 as stated: a run that has completed leaves no checkpoint file, and a run
\* that ended through its error path, or through an interrupt that arrived before
\* the driver had returned, has not deleted the checkpoint file.
C4_NeverDeletedOnInterrupt ==
  /\ hist.completed => ~file.exists
  /\ (hist.errored \/ (exitBy = "sigint" /\ hist.intr)) => ~hist.removed

\* C4, amended: once the try block of the driver has ended the checkpoint file
\* does not exist; the file is deleted by the fs.remove of line 392 only, after
\* the loop was left and the dork lists and the statistics were written, and
\* never by a run that has entered its catch block. (A run that exits through
\* the SIGINT handler may have deleted it: the driver runs on while the marker
\* is being written.)
C4_DeletedOnCompletionOnly ==
  /\ [](hist.completed => ~file.exists)
  /\ [](hist.removed =>
          hist.completed /\ out.list > 0 /\ out.text > 0 /\ out.stats > 0)
  /\ [][(file.exists /\ ~file'.exists) =>
          (pc = "remove" /\ pc' = "done" /\ ~hist.errored /\ hist'.removed)]_vars

\* the driver has deleted the checkpoint and returned while an interrupt that
\* arrived before is still being handled
C4_Witness ==
  /\ At("done") /\ hist.removed /\ ~file.exists /\ hist.intr /\ sig = "marker"

\* C5 as stated: a run that follows a completed run and has the same dork list
\* processes no dork that the completed run processed.
C5_NoReprocessing ==
  (hist.prevCompleted /\ proc = "running" /\ dorks = hist.prevDorks) =>
     Range(results) \cap Range(hist.prevResults) = {}

\* C5, amended: a run that follows a completed run finds no checkpoint: it loads
\* the sentinel and starts at index 0, and when it leaves its loop it has
\* processed every dork of its list, those of the completed run included.
C5_RerunStartsOver ==
  (hist.prevCompleted /\ Loaded) =>
     /\ checkpoint = Sentinel /\ startIndex = JSNum(0)
     /\ LoopLeft => results = dorks
     /\ (LoopLeft /\ dorks = hist.prevDorks) =>
          Range(hist.prevResults) \subseteq Range(results)

\* the second of two completed runs over the same list has finished, both having
\* processed the whole list
C5_Witness ==
  /\ hist.prevCompleted /\ At("done") /\ dorks = hist.prevDorks
  /\ results = dorks /\ hist.prevResults = dorks /\ Len(dorks) = 3

\* the checkpoint file is as loadCheckpoint found it: no save of this run has
\* opened it
FileAsLoaded ==
  /\ proc = "running" /\ pc \in {"ask", "launch", "inspect", "save"}
  /\ hist.doneIdx \subseteq {i.v} /\ hist.maxSaved = -1

\* C7: loadCheckpoint returns the sentinel when the checkpoint file does not
\* exist and when it exists and cannot be read or parsed, and it never raises: the
\* driver never goes from the call into its catch block. With the sentinel the
\* scan starts at index 0.
C7_SentinelOnFailure ==
  /\ [](FileAsLoaded =>
          /\ (~file.exists \/ ~FileRecord.ok) => checkpoint = Sentinel
          /\ checkpoint \in {Sentinel, FileRecord.val}
          /\ checkpoint = Sentinel =>
               (startIndex = JSNum(0) /\ (pc = "ask" /\ hist.doneIdx = {} => i = JSNum(0))))
  /\ [][At("load") => pc' # "catch"]_vars

\* the scan has started at index 0 from a checkpoint file that holds no record
C7_Witness ==
  /\ FileAsLoaded /\ file.exists /\ ~FileRecord.ok
  /\ At("ask") /\ i = JSNum(0) /\ checkpoint = Sentinel

\* C8 as stated: at every instant the checkpoint file holds a complete record,
\* and once a run has saved a record the file holds the record of its latest
\* successful save until the run removes the file; this in the states a crash or
\* an interrupt leaves behind as well.
C8_ReplacedWholesale ==
  /\ file.exists => FileRecord.ok
  /\ (hist.maxSaved >= 0 /\ ~hist.removed) =>
       (file.exists /\ FileRecord.ok /\ FileRecord.val.lastIndex = JSNum(hist.maxSaved))

\* C9: a SIGINT received in any state of a running scan leads to the end of the
\* process; a process that exits through the handler has attempted the marker
\* write before, whether it succeeded or failed, and exits with code 0.
C9_InterruptExits ==
  /\ (sig = "marker") ~> (proc # "running")
  /\ [](exitBy = "sigint" => (marker \in {"written", "failed"} /\ exitCode = 0))
  /\ [][(proc = "running" /\ sig = "marker" /\ sig' # "marker") => proc' # "running"]_vars

\* the process has exited through the handler after an interrupt that came while a
\* checkpoint write was in flight, the marker write having failed
C9_Witness ==
  /\ proc = "exited" /\ exitBy = "sigint" /\ marker = "failed" /\ hist.intr
  /\ file.exists /\ ~FileRecord.ok

-----------------------------------------------------------------------------
(* The handoff, SpecHandoff.                                               *)

\* C12: when the first detection of waitForCaptchaResolution reports no block,
\* the function returns true (Resolved) without having prompted the operator
\* and without having marked the page.
C12_NoBlockNoPrompt ==
  (ho.phase = "done" /\ ho.first = "false") =>
     /\ ho.result = "true" /\ ho.state = "Resolved"
     /\ ~ho.prompted /\ ~ho.flashed /\ ho.lastLine = "none"

C12_Witness ==
  /\ ho.phase = "done" /\ ho.first = "false" /\ ~ho.page.keyword
  /\ ho.result = "true" /\ ~ho.prompted /\ ~ho.flashed

\* the steps between the states of the handoff that the code takes
HandoffSteps ==
  {<<"Idle", "Checking">>, <<"Idle", "Unavailable">>,
   <<"Checking", "AwaitingHuman">>, <<"Checking", "Resolved">>,
   <<"AwaitingHuman", "AwaitingHuman">>, <<"AwaitingHuman", "Resolved">>,
   <<"AwaitingHuman", "Skipped">>, <<"AwaitingHuman", "TimedOut">>,
   <<"AwaitingHuman", "Unavailable">>}

\* the steps of the state machine Idle -> Checking -> AwaitingHuman ->
\* {Resolved, Skipped, TimedOut}
ListedSteps ==
  {st \in HandoffSteps : st[1] # "Unavailable" /\ st[2] # "Unavailable"}

\* what holds of a state of the handoff, whatever its exits
HandoffReturns(h) ==
  /\ h.phase = "prompt" => h.state = "AwaitingHuman"
  /\ h.phase = "done" =>
       /\ h.result \in {"true", "false"}
       /\ h.result = "true" <=> h.state = "Resolved"
       /\ (h.result = "true" /\ h.prompted) => h.lastRecheck = "false"
  /\ h.lastRecheck = "true" => h.state \in {"AwaitingHuman", "TimedOut"}

\* C13 as stated: the handoff follows Idle -> Checking -> AwaitingHuman ->
\* {Resolved, Skipped, TimedOut}, returns true exactly in Resolved and false in
\* Skipped and TimedOut, returns true from AwaitingHuman only after a re-check
\* that no longer reported a block, and a re-check that reports one does not
\* resolve it.
C13_ThreeExits ==
  [][/\ ho'.state # ho.state => <<ho.state, ho'.state>> \in ListedSteps
     /\ HandoffReturns(ho')
     /\ ho'.phase = "done" => ho'.state \in {"Resolved", "Skipped", "TimedOut"}]_vars

\* C13, amended: as C13_ThreeExits, with a fourth exit: on a page that is
\* missing or closed at the call, or closed when an answer arrives, the handoff
\* returns false from Idle or AwaitingHuman without any detection.
C13_HandoffStates ==
  [][/\ ho'.state # ho.state => <<ho.state, ho'.state>> \in HandoffSteps
     /\ HandoffReturns(ho')
     /\ ho'.phase = "done" =>
          /\ ho'.state \in {"Resolved", "Skipped", "TimedOut", "Unavailable"}
          /\ ho'.state = "Unavailable" =>
               (~ho'.page.present \/ ho'.page.closed) /\ ho'.lastRecheck = "none"]_vars

C13_Witness ==
  /\ ho.phase = "done" /\ ho.state = "Resolved" /\ ho.result = "true"
  /\ ho.first = "true" /\ ho.prompted /\ ho.flashed
  /\ ho.lastLine = "ok" /\ ho.lastRecheck = "false"

\* C14: once the operator has answered the prompt with the skip token, the
\* function has returned false, without a re-check of the detector.
C14_SkipReturnsFalse ==
  ho.lastLine \in {"skip", "SKIP"} =>
     /\ ho.phase = "done" /\ ho.result = "false" /\ ho.state = "Skipped"
     /\ ho.lastRecheck = "none"

\* C15: the wait in AwaitingHuman is bounded by the timeout, also when the
\* operator never answers, and the function never returns true for a
\* resolution found after the timeout had elapsed.
C15_BoundedByTimeout ==
  /\ ho.phase = "prompt" => ho.now - ho.startTime <= ho.timeout
  /\ (ho.phase = "done" /\ ho.result = "true" /\ ho.prompted) =>
        ho.answeredAt - ho.startTime < ho.timeout

\* C16: a re-check whose evaluation throws resolves the handoff (it returns
\* true), while a first detection whose evaluation throws hands over to the
\* operator.
C16_RecheckErrorResolves ==
  /\ ho.recheckThrew =>
       (ho.phase = "done" /\ ho.result = "true" /\ ho.state = "Resolved")
  /\ ho.firstThrew => (ho.first = "true" /\ ho.flashed)

-----------------------------------------------------------------------------
(* The stability waiter, SpecStable.                                       *)

\* C17: on a page that stays open and is never found stable,
\* waitForPageStability returns true, not before maxWaitTime has elapsed and
\* not later than one polling interval after it.
C17_MaxWaitBound ==
  (sw.phase = "done" /\ sw.page.present /\ ~sw.page.closed /\ sw.how # "stable") =>
     /\ sw.result = "true"
     /\ sw.retAt - sw.startTime >= sw.maxWait
     /\ sw.retAt - sw.startTime <= sw.maxWait + PollTicks

\* C18: waitForPageStability returns stable only at a poll that found the size
\* of the previous snapshot, and only when stableTime has passed since the last
\* change that the installed observer timestamped.
C18_StableOnlyWhenQuiet ==
  (sw.phase = "done" /\ sw.how = "stable") =>
     /\ sw.result = "true" /\ sw.sameSize
     /\ sw.page.recorded => sw.retAt - sw.page.observed >= sw.stable

-----------------------------------------------------------------------------
(* The driver's catch block, Spec.                                         *)

\* the driver's function has ended on an exception: it returned from its catch
\* block, or its promise was rejected and the caller exited
Propagated == pc = "failed" \/ exitBy = "fatal"

\* C19: an exception in the driver, wherever it is thrown, takes the driver to
\* its catch block and nowhere else; the failure is propagated only from there,
\* after the write of the error report was attempted, and the readline
\* interface, open until then, is closed by that step.
C19_ErrorReportThenClose ==
  [][/\ (hist'.errored /\ ~hist.errored) => (pc' = "catch" /\ proc' = "running")
     /\ (hist'.errored /\ proc' = "running") => pc' \in {"catch", "failed"}
     /\ (Propagated' /\ ~Propagated) =>
          /\ pc = "catch" /\ hist.errored
          /\ ~rlClosed /\ rlClosed'
          /\ pc' = "failed" => out'.error = out.error + 1]_vars

C19_Witness ==
  /\ pc = "failed" /\ proc = "running" /\ hist.errored
  /\ out.error = 1 /\ out.list = 1 /\ out.stats = 0 /\ rlClosed

\* C20: a run in which the driver threw ends in failure: the driver does not
\* return normally to its caller, which would report success, and a process
\* that exits of itself exits with a non-zero status.
C20_FatalEndsInFailure ==
  hist.errored =>
     /\ pc # "failed"
     /\ (proc = "exited" /\ exitBy # "sigint") => exitCode # 0

-----------------------------------------------------------------------------
(* The browser step and the order of the loop, Spec.                       *)

\* C21: a step of the driver out of the browser step of a dork leads to the
\* inspection prompt or, on a failure as after the confirmation, to the
\* recording of the dork and the call of saveCheckpoint, never to the catch
\* block; from there the driver goes through the save to the delay and on to a
\* later dork or to the reports.
C21_BrowserErrorContained ==
  [][(proc' = "running" /\ pc' # pc) =>
       /\ pc \in {"launch", "inspect"} =>
            /\ pc' \in {"inspect", "save"}
            /\ hist'.errored = hist.errored
            /\ pc' = "save" =>
                 /\ i' = i /\ i.v \in hist'.doneIdx
                 /\ processedDorks' = Append(processedDorks, DorkAt(dorks, i.v))
                 /\ results' = Append(results, DorkAt(dorks, i.v))
       /\ pc \in {"save", "saving"} =>
            (pc' \in {"saving", "delay", "pause"} /\ hist'.errored = hist.errored)
       /\ pc = "delay" => (pc' \in {"ask", "reports"} /\ i'.v > i.v)]_vars

\* the navigation of an earlier dork failed, its checkpoint is on disk and the
\* driver is at the question of a later dork
C21_Witness ==
  /\ At("ask") /\ browser.leaked /\ ~hist.errored
  /\ hist.maxSaved >= 0 /\ i.v > hist.maxSaved
  /\ file.exists /\ FileRecord.ok

\* C22: whenever the driver starts on a dork, at the question of
\* processDorkDisplayMode, no browser launched for an earlier dork is running.
C22_NoBrowserAcrossDorks ==
  At("ask") => (~browser.open /\ ~browser.leaked)

\* C23: within a run the dorks are taken up in strictly increasing order of
\* their indices, one at a time: a dork is marked done only as the current one
\* with every dork done before it of a lower index, and the driver comes to the
\* question of a dork only from the checkpoint load or from the delay that
\* follows the saveCheckpoint of the dork before, with every dork done so far of
\* a lower index.
C23_StrictListOrder ==
  [][(proc = "running" /\ proc' = "running") =>
       /\ hist'.doneIdx # hist.doneIdx =>
            /\ hist'.doneIdx = hist.doneIdx \cup {i.v}
            /\ pc \in {"ask", "launch", "inspect"} /\ pc' = "save" /\ i' = i
            /\ \A j \in hist.doneIdx : j < i.v
       /\ (pc' = "ask" /\ pc # "ask") =>
            /\ pc \in {"load", "delay"}
            /\ pc = "delay" => (i'.v > i.v /\ i.v \in hist.doneIdx)
            /\ \A j \in hist'.doneIdx : j < i'.v
       /\ (i' # i) => pc \in {"load", "delay"}]_vars

\* the third dork is at its question after the first two were done and saved
C23_Witness ==
  /\ At("ask") /\ i = JSNum(2) /\ hist.doneIdx = {0, 1} /\ hist.maxSaved = 1

\* C24: when a dork is recorded after its page was opened and inspected, the
\* stability waiter and the detector have run on the page (and the handoff when
\* the detector found a block), and a dork whose handoff returned false is not
\* recorded.
C24_WaiterDetectorHandoff ==
  (proc = "running" /\ pc = "save" /\ hist.opened /\ hist.confirmed) =>
     /\ sw.phase = "done" /\ det.phase = "done"
     /\ det.result # "false" => (ho.phase = "done" /\ ho.result = "true")

-----------------------------------------------------------------------------
(* The dork generator, SpecGen.                                            *)

\* a valid domain string: not empty and without a blank
ValidDomain(d) == d # "" /\ ~Contains(d, " ")

\* C25: for a valid domain D and every selection, the list returned by
\* generateDorksList has no string twice, every element contains D or an
\* alternate domain, and for the selection {generic} the string
\* "site:D filetype:log" is in it exactly once.
C25_NoDuplicateContainsDomain ==
  (gen.phase = "done" /\ ValidDomain(gen.domain)) =>
     /\ \A a, b \in 1..Len(gen.out) : a # b => gen.out[a] # gen.out[b]
     /\ \A k \in 1..Len(gen.out) :
          \/ Contains(gen.out[k], gen.domain)
          \/ \E alt \in Range(ALTERNATIVE_DOMAINS) : Contains(gen.out[k], alt)
     /\ gen.types = <<1>> =>
          Cardinality({k \in 1..Len(gen.out) :
                         gen.out[k] = "site:" \o gen.domain \o " filetype:log"}) = 1

\* the generic list for a domain that is an alternate domain as well: the probe
\* "site:adm.tesla.com filetype:log" of the alternate domains is already there
C25_Witness ==
  /\ gen.phase = "done" /\ gen.domain = "adm.tesla.com" /\ gen.types = <<1>>
  /\ gen.cfg.includeVariations /\ ~gen.cfg.limitPaths
  /\ Len(RawDorks(gen.types, gen.domain, gen.cfg)) = Len(gen.out) + 1
  /\ Len(gen.out) = Len(generateGenericDorks(gen.domain)) + 5

\* C26: the list returned is the filled array with each string at its first
\* occurrence only, and the filled array holds the templates of the selected
\* categories in the order of selection and of the template lists, then three
\* entries (site, inurl:admin, filetype:log) per alternate domain when
\* variations are enabled, then one "site:domain inurl:path" entry per path
\* when path limiting is enabled.
C26_OrderPreserving ==
  gen.phase = "done" =>
    LET raw == RawDorks(gen.types, gen.domain, gen.cfg)
        \* the number of entries in the filled array before the templates of
        \* the p-th selected category
        RECURSIVE Offset(_)
        Offset(p) ==
          IF p = 1 THEN 0
          ELSE Offset(p - 1) + Len(CategoryDorks(gen.types[p - 1], gen.domain))
        nsel == Offset(Len(gen.types) + 1)
        nalt == IF gen.cfg.includeVariations THEN 3 * Len(ALTERNATIVE_DOMAINS) ELSE 0
        npath == IF gen.cfg.limitPaths THEN Len(Paths) ELSE 0
        \* the position of the first occurrence of x in the filled array
        FirstPos(x) == CHOOSE k \in 1..Len(raw) :
                         raw[k] = x /\ \A j \in 1..(k - 1) : raw[j] # x
    IN  /\ Len(raw) = nsel + nalt + npath
        /\ \A p \in 1..Len(gen.types) :
             LET t == CategoryDorks(gen.types[p], gen.domain) IN
             \A k \in 1..Len(t) : raw[Offset(p) + k] = t[k]
        /\ gen.cfg.includeVariations =>
             \A a \in 1..Len(ALTERNATIVE_DOMAINS) :
               /\ raw[nsel + 3 * (a - 1) + 1] = "site:" \o ALTERNATIVE_DOMAINS[a]
               /\ raw[nsel + 3 * (a - 1) + 2] =
                    "site:" \o ALTERNATIVE_DOMAINS[a] \o " inurl:admin"
               /\ raw[nsel + 3 * (a - 1) + 3] =
                    "site:" \o ALTERNATIVE_DOMAINS[a] \o " filetype:log"
        /\ gen.cfg.limitPaths =>
             \A k \in 1..Len(Paths) :
               raw[nsel + nalt + k] = "site:" \o gen.domain \o " inurl:" \o Paths[k]
        /\ \A a, b \in 1..Len(gen.out) : a # b => gen.out[a] # gen.out[b]
        /\ Range(gen.out) = Range(raw)
        /\ \A a \in 1..(Len(gen.out) - 1) :
             FirstPos(gen.out[a]) < FirstPos(gen.out[a + 1])
        /\ gen.out = generateDorksListText(gen.types, gen.domain, gen.cfg)

\* e-commerce selected before generic, for a domain that is an alternate domain
\* as well, with variations and paths: one duplicate was removed
C26_Witness ==
  /\ gen.phase = "done" /\ gen.types = <<4, 1>> /\ gen.domain = "adm.tesla.com"
  /\ gen.cfg.includeVariations /\ gen.cfg.limitPaths
  /\ Len(gen.out) = Len(RawDorks(gen.types, gen.domain, gen.cfg)) - 1
  /\ gen.out[1] = generateEcommerceDorks(gen.domain)[1]
  /\ gen.out[Len(gen.out)] = "site:adm.tesla.com inurl:/api"

\* C27: for an invalid domain string, empty or malformed, generateDorksList
\* raises an error and returns no dork.
C27_InvalidDomainRejected ==
  (gen.phase = "done" /\ ~ValidDomain(gen.domain)) => (gen.raised /\ gen.out = <<>>)

-----------------------------------------------------------------------------
(* The checks of the detector, SpecDetect.                                 *)

\* the reason that the three checks give for the page of det, in their order
FirstHit ==
  IF FirstKeyword(det.text) # 0
  THEN <<"keyword", blockKeywords[FirstKeyword(det.text)]>>
  ELSE IF det.page.selector THEN <<"selector">>
  ELSE IF det.page.grid >= 5 THEN <<"grid">>
  ELSE <<"none">>

\* C28 as stated: on an open page with a body the detector returns true exactly
\* when the lower-cased text contains a keyword, or a selector matches, or there
\* are more than 4 grid tiles, and the reason reported is that of the first of
\* these checks that hits.
C28_ExactlyThreeChecks ==
  (det.phase = "done" /\ det.page.present /\ ~det.page.closed /\ det.page.body) =>
     /\ det.result = "true" <=> FirstHit # <<"none">>
     /\ det.result = "false" <=> FirstHit = <<"none">>
     /\ det.reason = FirstHit

\* C28, amended: as C28_ExactlyThreeChecks when the evaluation in the page
\* completes; when it throws, the detector returns true whatever the page
\* shows and reports no reason.
C28_ThreeChecksOrError ==
  (det.phase = "done" /\ det.page.present /\ ~det.page.closed /\ det.page.body) =>
     IF det.page.evalThrows
     THEN det.result = "true" /\ det.reason = <<"none">>
     ELSE /\ det.result = "true" <=> FirstHit # <<"none">>
          /\ det.result = "false" <=> FirstHit = <<"none">>
          /\ det.reason = FirstHit

\* detected by the grid alone, with exactly five tiles and a text without keyword
C28_Witness ==
  /\ det.phase = "done" /\ det.page.present /\ ~det.page.closed /\ det.page.body
  /\ ~det.page.evalThrows /\ det.text = "Welcome" /\ ~det.page.selector
  /\ det.page.grid = 5 /\ det.result = "true" /\ det.reason = <<"grid">>

-----------------------------------------------------------------------------
(* The marking step of the handoff, SpecHandoff.                           *)

\* C29: when a block is detected and the marking of the page fails (the
\* injection throws, the window is not maximised, the evaluation fails, the
\* page is gone), the handoff still enters AwaitingHuman and prompts the
\* operator, and it ends as any handoff does: with true exactly from Resolved
\* after a re-check that reported no block, with false from Skipped, TimedOut
\* or Unavailable, never with an error.
C29_MarkingFailureNotFatal ==
  /\ [](ho.mark \in {"caught", "failed", "unmaximised", "throw"} =>
          /\ ho.first # "false" /\ ho.prompted /\ ho.result # "throw"
          /\ ho.phase = "prompt" => (ho.state = "AwaitingHuman" /\ ho.result = "none")
          /\ ho.phase = "done" =>
                /\ ho.result \in {"true", "false"}
                /\ ho.result = "true" <=> ho.state = "Resolved"
                /\ ho.result = "true" => (ho.lastLine # "none" /\ ho.lastRecheck # "true")
                /\ ho.result = "false" => ho.state \in {"Skipped", "TimedOut", "Unavailable"})
  /\ [][(ho.phase = "check" /\ ho'.flashed) =>
          (ho'.phase = "prompt" /\ ho'.state = "AwaitingHuman" /\ ho'.prompted)]_vars

\* the injection threw on a page that shows a keyword, and the handoff was
\* resolved by the operator all the same
C29_Witness ==
  /\ ho.phase = "done" /\ ho.mark = "failed" /\ ho.first = "true" /\ ~ho.firstThrew
  /\ ho.prompted /\ ho.result = "true" /\ ho.state = "Resolved"

-----------------------------------------------------------------------------
(* The errors of the stability waiter, SpecStable.                         *)

\* C30: waitForPageStability raises only on a missing or closed page, and
\* when an evaluation in an open page throws, at the installation of the
\* observer or at a poll, it does not raise and returns true, as it does for a
\* settled page.
C30_EvalErrorPresumesStable ==
  sw.phase = "done" =>
     /\ sw.result = "throw" => (~sw.page.present \/ sw.page.closed)
     /\ (sw.how = "error" /\ sw.page.present /\ ~sw.page.closed) => sw.result = "true"

-----------------------------------------------------------------------------
(* The clean-up of the observers, SpecObserver.                            *)

\* C31: once the cleanup timers of all calls on a page have fired, no
\* mutation observer is connected and XMLHttpRequest.prototype.open is the
\* page's original function, also when the observation windows of two calls
\* overlapped.
C31_ObserverSelfDeactivates ==
  (obs.n > 0 /\ Pending(obs) = {}) =>
     /\ \A k \in 1..MaxCalls : ~obs.calls[k].connected
     /\ obs.open = 0

-----------------------------------------------------------------------------
(* Failed saves of the checkpoint, Spec.                                   *)

\* C32: a failed checkpoint write does not abort the scan: saveCheckpoint
\* returns, the driver goes on with dorks[i] in its processed set, and the
\* checkpoint file still holds the record of the last save that succeeded.
C32_FailedSaveKeepsRecord ==
  (proc = "running" /\ pc \in {"delay", "pause"} /\ hist.maxSaved # i.v) =>
     /\ ~hist.errored
     /\ DorkAt(dorks, i.v) \in Range(processedDorks)
     /\ hist.maxSaved >= 0 =>
          (file.exists /\ FileRecord.ok
             /\ FileRecord.val.lastIndex = JSNum(hist.maxSaved))

-----------------------------------------------------------------------------
(* The pauses of the driver, SpecPause.                                    *)

\* C33 as stated: the driver pauses after each tenth dork that the run has
\* handled, and never after the last dork of the list, in a resumed run and
\* with skipped dorks as well.
C33_PauseEveryTenthHandled ==
  /\ \A p \in loop.pauses : p[2] % 10 = 0 /\ p[1] < loop.n - 1
  /\ (loop.phase \in {"pause", "delay"} /\ loop.handled % 10 = 0
        /\ loop.i < loop.n - 1) => \E p \in loop.pauses : p[1] = loop.i

\* C33, amended: the driver pauses after the dork at every tenth position of
\* the list (index 9, 19, ...) that the run has processed and that is not the
\* last of the list, and at no other moment; the dorks the run has handled
\* are not counted.
C33_PauseEveryTenthPosition ==
  /\ \A p \in loop.pauses :
       /\ (p[1] + 1) % 10 = 0 /\ p[1] < loop.n - 1
       /\ p[1] >= loop.start /\ p[1] # loop.skip
  /\ \A j \in 0..(loop.n - 2) :
       (/\ j >= loop.start /\ j # loop.skip
        /\ j < loop.i \/ (j = loop.i /\ loop.phase \in {"pause", "delay"})
        /\ (j + 1) % 10 = 0) => \E p \in loop.pauses : p[1] = j
  /\ loop.phase = "pause" => \E p \in loop.pauses : p[1] = loop.i

\* a resumed run pauses after index 9, the sixth dork it has handled, one of
\* the dorks before having been skipped
C33_Witness ==
  /\ loop.phase = "pause" /\ loop.start = 3 /\ loop.skip = 5 /\ loop.i = 9
  /\ loop.handled = 6 /\ loop.n = 12

-----------------------------------------------------------------------------
(* The statistics file, Spec.                                              *)

\* C34: the statistics are written exactly once per run, at the end of the
\* scan or on a fatal error: a run that has ended by normal completion or
\* through the driver's catch block has written one statistics file, and no
\* run writes more than one.
C34_StatsOncePerRun ==
  /\ out.stats <= 1
  /\ (pc = "done" \/ Propagated) => out.stats = 1

-----------------------------------------------------------------------------
(* The skip decision of the handoff, SpecHandoff.                          *)

\* C35: the handoff ends in Skipped only on the operator's answer to the
\* current prompt: the line just entered is the skip token, and an empty line
\* (ENTER) never skips, whatever was entered at earlier prompts.
C35_SkipOnlyOnCurrentAnswer ==
  (ho.phase = "done" /\ ho.state = "Skipped") =>
     (ho.lastLine # "" /\ ToLower(ho.lastLine) = "skip")

-----------------------------------------------------------------------------
(* The checkpoint records of runs on the same list, SpecSame.              *)

\* C36: with the same dork list in every run, every record in the checkpoint
\* file is closed downwards: its lastIndex is an index of the list and the
\* dork at every index up to lastIndex is in its processedDorks, after any
\* sequence of runs, crashes, resumes and failed saves.
C36_RecordClosedDownwards ==
  (file.exists /\ FileRecord.ok) =>
     LET r == FileRecord.val IN
     /\ r.lastIndex.t = "num" /\ r.lastIndex.v \in 0..(Len(FixedList) - 1)
     /\ \A j \in 0..r.lastIndex.v :
          DorkAt(FixedList, j) \in Range(ArrList(r.processedDorks))

\* a run resumed at index 1 has processed the rest of the list and written
\* the record for the last index
C36_Witness ==
  /\ file.exists /\ FileRecord.ok /\ FileRecord.val.lastIndex = JSNum(NumCats)
  /\ At("delay") /\ startIndex = JSNum(1) /\ hist.maxSaved = NumCats
  /\ hist.doneIdx = 1..NumCats

-----------------------------------------------------------------------------
(* The start index from a checkpoint file of any content, SpecForeign.     *)

\* C37: whatever the checkpoint file holds, the start index that the driver
\* derives from loadCheckpoint is an integer between 0 and the length of the
\* list, and no run that started from an object without a numeric lastIndex
\* removes the checkpoint file without having processed a dork.
C37_StartIndexWellFormed ==
  Loaded =>
     /\ startIndex.t = "num" /\ startIndex.v \in 0..Len(dorks)
     /\ (hist.removed /\ results = <<>>) => checkpoint.lastIndex.t = "num"

-----------------------------------------------------------------------------
(* The operator-input interfaces at the end of the driver, Spec.           *)

\* C38: when runMultiEngineDorkScan has finished, normally or through its
\* catch block, both operator-input interfaces of the program are closed: the
\* driver's own and the one of the human-interaction module that
\* waitForUserConfirmation reads from.
C38_InterfacesClosed ==
  (proc = "running" /\ pc \in {"done", "failed"}) => (rlClosed /\ hiClosed)

-----------------------------------------------------------------------------
(* The results of a run, Spec.                                             *)

-----------------------------------------------------------------------------
(* The count of the manually checked dorks, Spec.                          *)

\* C40: stats.manuallyChecked counts the dorks of the run for which the
\* operator answered affirmatively and a browser was opened: it grows by one
\* when the inspection of such a dork ends and stays as it is for a dork
\* that was declined; and a browser is opened only after the affirmative
\* answer.
C40_ManuallyCheckedCounts ==
  [][/\ (At("inspect") /\ pc' = "save") =>
          stats'.manuallyChecked = stats.manuallyChecked + 1
     /\ (At("ask") /\ pc' = "save") =>
          (stats'.manuallyChecked = stats.manuallyChecked /\ ~browser'.open)
     /\ (~browser.open /\ browser'.open) => At("launch")]_vars

=============================================================================
